---- MODULE Spec2Model ----
(***************************************************************************)
(* The hobo workflow engine (src/src/engine.ts) with the generator         *)
(* interpreter (src/src/wfkit.ts) and the in-memory blob store, for one    *)
(* workflow id.  Engine calls are issued by concurrent callers and         *)
(* interleave at their BlobStore.get / BlobStore.put steps.                *)
(*                                                                         *)
(* Encodings.  An optional value (null / undefined in the source) is a     *)
(* sequence of length 0 or 1.  Times are whole seconds since an epoch;     *)
(* iso() and parseISO() are mutually inverse on them.  A task id           *)
(* 't' + seq padded to six digits is the number seq (the padding keeps     *)
(* the string order equal to the numeric order below 10^6).  An effect id  *)
(* is the sequence of its dotted parts; the name 'E:<eid>' of an activity  *)
(* and the label 'S:<eid>' of a timer are the event's eid field.           *)
(***************************************************************************)
EXTENDS Integers, Sequences, FiniteSets, TLC

\* ------------------------------------------------------------------ bounds
MaxCalls == 3
MaxTime == 2
\* Calls made on the workflow that is driven call by call.
MaxSteps == 6
\* Calls made in a run of the hello workflow, and the time a run ends by.
RunSteps == 10
RunTime == 6
\* max_tries of a task that fails often enough for 2^tries to pass 300.
LongRun == 10

\* ------------------------------------------------------- program constants
DefaultMaxTries == 3
MaxBackoff == 300

Procs == {1, 2}
Workers == {"w1", "w2"}
Times == {0, MaxTime}
None == <<>>
Some(x) == <<x>>
IsSome(o) == Len(o) = 1
Val(o) == o[1]

Min2(a, b) == IF a <= b THEN a ELSE b

RECURSIVE Pow2(_)
Pow2(n) == IF n = 0 THEN 1 ELSE 2 * Pow2(n - 1)

RECURSIVE SortedIds(_)
SortedIds(S) ==
  IF S = {} THEN <<>>
  ELSE LET m == CHOOSE x \in S : \A y \in S : x <= y
       IN <<m>> \o SortedIds(S \ {m})

IsPrefix(a, b) == Len(a) <= Len(b) /\ SubSeq(b, 1, Len(a)) = a

\* ------------------------------------------------------------- data model
\* WFEvent: one record shape for the whole union; the fields an event type
\* does not carry hold 0, <<>> or "".
Event(type, ts, task_id, eid, key, after, result) ==
  [type |-> type, ts |-> ts, task_id |-> task_id, eid |-> eid,
   key |-> key, after_seconds |-> after, result |-> result]

\* SleepTask and ExecTask in one record shape; a sleep task carries no
\* lease, tries, max_tries or fence (held as <<>>, 0, 0, 0 and never read).
\* retry_delays is the list of delays in seconds, <<>> when the task has
\* none (no workflow of the model passes retryDelays).
SleepTask(id, run_after, eid) ==
  [id |-> id, type |-> "sleep", status |-> "pending", run_after |-> run_after,
   eid |-> eid, lease |-> None, tries |-> 0, max_tries |-> 0, fence |-> 0,
   result |-> None, error |-> None, retry_delays |-> <<>>, idem_key |-> None]

ExecTask(id, run_after, eid, max_tries) ==
  [id |-> id, type |-> "exec", status |-> "pending", run_after |-> run_after,
   eid |-> eid, lease |-> None, tries |-> 0, max_tries |-> max_tries,
   fence |-> 0, result |-> None, error |-> None, retry_delays |-> <<>>,
   idem_key |-> None]

Lease(owner, token, expires_at) ==
  [owner |-> owner, token |-> token, expires_at |-> expires_at]

\* The signal names a workflow waits for.
SigNames == {"A", "B"}

\* $wf.sigCount: a missing key reads as 0 (sigCount[name] ?? 0).
ZeroCount == [n \in SigNames |-> 0]

\* ExecOpts: the options of one io.exec call, and params.execDefaults; a
\* field that is not given is None.  retryDelays holds the list of delays.
ExecOpts(maxTries, retryDelays, idemKey, runAfter) ==
  [maxTries |-> maxTries, retryDelays |-> retryDelays, idemKey |-> idemKey,
   runAfter |-> runAfter]

NoOpts == ExecOpts(None, None, None, None)

\* { ...defaults, ...opts }: a field of opts that is given replaces the
\* default.
MergeOpts(defaults, opts) ==
  [f \in DOMAIN defaults |-> IF IsSome(opts[f]) THEN opts[f] ELSE defaults[f]]

\* ctx: the reserved $wf subtree {cursor, sigCount} (absent until the first
\* decider run), the params given to create (held as their execDefaults) and
\* the keys "result" and "i".
Ctx(params) ==
  [wf |-> None, params |-> params, result |-> None, i |-> None]

\* Effect: one record shape for the union; children holds the children of
\* an all (key "") and the options of a race in key order.  A set holds its
\* key in name and its value in seconds; a complete with the value
\* {field: v} holds field in name and v in seconds (name "": no value).
Eff(kind, name, seconds, children) ==
  [kind |-> kind, name |-> name, seconds |-> seconds, children |-> children,
   opts |-> NoOpts]

\* io.exec(name, undefined, opts).
ExecWith(name, opts) == [Eff("exec", name, 0, <<>>) EXCEPT !.opts = opts]

Child(key, kind, name, seconds) ==
  [key |-> key, kind |-> kind, name |-> name, seconds |-> seconds]

\* A workflow is the sequence of effects its generator yields in order: the
\* generators of the model branch on no fed-back value.
\*   function* (io) { yield io.exec("a"); yield io.sleep(2);
\*                    return yield io.complete(); }
Workflow ==
  << Eff("exec", "a", 0, <<>>),
     Eff("sleep", "", 2, <<>>),
     Eff("complete", "", 0, <<>>) >>

\*   function* (io) { const a = yield io.signal("A");
\*                    const b = yield io.signal("A");
\*                    return yield io.complete(); }
SignalsTwice ==
  << Eff("signal", "A", 0, <<>>),
     Eff("signal", "A", 0, <<>>),
     Eff("complete", "", 0, <<>>) >>

\*   function* (io) { const x = yield io.signal("A");
\*                    yield io.exec("f");
\*                    return yield io.complete(); }
SignalThenExec ==
  << Eff("signal", "A", 0, <<>>),
     Eff("exec", "f", 0, <<>>),
     Eff("complete", "", 0, <<>>) >>

\*   function* (io) { const w = yield io.race({ sa: io.signal("A"),
\*                      sb: io.signal("B"), ex: io.exec("f"),
\*                      sl: io.sleep(2) });
\*                    return yield io.complete(); }
RaceMixed ==
  << Eff("race", "", 0,
         << Child("sa", "signal", "A", 0), Child("sb", "signal", "B", 0),
            Child("ex", "exec", "f", 0), Child("sl", "sleep", "", 2) >>),
     Eff("complete", "", 0, <<>>) >>

\*   function* (io) { const w = yield io.race({ sa: io.signal("A"),
\*                      ex: io.exec("f"), sl: io.sleep(2) });
\*                    yield io.exec("g");
\*                    return yield io.complete(); }
RaceThenExec ==
  << Eff("race", "", 0,
         << Child("sa", "signal", "A", 0), Child("ex", "exec", "f", 0),
            Child("sl", "sleep", "", 2) >>),
     Eff("exec", "g", 0, <<>>),
     Eff("complete", "", 0, <<>>) >>

\*   function* (io) { const r = yield io.all([io.exec("f"), io.sleep(2),
\*                                             io.signal("A")]);
\*                    return yield io.complete(); }
AllMixed ==
  << Eff("all", "", 0,
         << Child("", "exec", "f", 0), Child("", "sleep", "", 2),
            Child("", "signal", "A", 0) >>),
     Eff("complete", "", 0, <<>>) >>

\* hello, from params.start = 0: the loop runs three rounds, whatever the
\* activity returns (i = r?.to ?? i + 1, and increment returns {to: i + 1}).
\*   function* (io, params) { let i = Number(params?.start ?? 0);
\*     while (i < 3) { const r = yield io.exec("increment", { to: i + 1 });
\*                     i = r?.to ?? i + 1;
\*                     yield io.set("i", i); yield io.sleep(2); }
\*     return yield io.complete({ final: i }); }
Hello ==
  << Eff("exec", "increment", 0, <<>>), Eff("set", "i", 1, <<>>),
     Eff("sleep", "", 2, <<>>),
     Eff("exec", "increment", 0, <<>>), Eff("set", "i", 2, <<>>),
     Eff("sleep", "", 2, <<>>),
     Eff("exec", "increment", 0, <<>>), Eff("set", "i", 3, <<>>),
     Eff("sleep", "", 2, <<>>),
     Eff("complete", "final", 3, <<>>) >>

\* The engine's registry of deciders, by name.
\*   function* (io) { yield io.exec("always_fail");
\*                    return yield io.complete(); }
OptsDefaults ==
  << Eff("exec", "always_fail", 0, <<>>),
     Eff("complete", "", 0, <<>>) >>

\*   function* (io) { yield io.exec("always_fail", undefined,
\*                                  { retryDelays: [2, 2], maxTries: 3 });
\*                    return yield io.complete(); }
OptsOverride ==
  << ExecWith("always_fail", ExecOpts(Some(3), Some(<<2, 2>>), None, None)),
     Eff("complete", "", 0, <<>>) >>

Deciders ==
  [main |-> Workflow, signals |-> SignalsTwice, race |-> RaceMixed,
   all |-> AllMixed, hello |-> Hello, opts_defaults |-> OptsDefaults,
   opts_override |-> OptsOverride, signal_exec |-> SignalThenExec,
   race_exec |-> RaceThenExec]

\* ---------------------------------------------------------------- logEvent
\* No EventStore is configured: the event is pushed on the history only.
logEvent(s, ev) == [s EXCEPT !.history = Append(@, ev)]

\* InMemoryEventStore.put(wfId, seq, event): the first event put at a
\* sequence number stays (if (m.has(seq)) return).
EventStorePut(m, seq, ev) ==
  IF seq \in DOMAIN m THEN m
  ELSE [k \in DOMAIN m \cup {seq} |-> IF k = seq THEN ev ELSE m[k]]

\* The puts of logEvent for the events history[from..to], in order.  With an
\* EventStore configured from create on, last_seq advances with every push
\* on the history, so the event pushed as entry k is put at sequence k.
RECURSIVE PutEvents(_, _, _, _)
PutEvents(m, history, from, to) ==
  IF from > to THEN m
  ELSE PutEvents(EventStorePut(m, from, history[from]), history, from + 1, to)

\* The EventStore after a pass that loaded a history of len events and left
\* history in memory; an engine without EventStore (<<>>) puts nothing.
Logs(store, len, history) ==
  IF store = None THEN None
  ELSE Some(PutEvents(Val(store), history, len + 1, Len(history)))

\* ------------------------------------------------------------ interpreter
\* indexHistory().execScheduledById[eid] / timerScheduledById[eid]: the task
\* id of the last event of that type carrying the effect id.
RECURSIVE LastTaskOf(_, _, _, _)
LastTaskOf(history, n, type, eid) ==
  IF n = 0 THEN None
  ELSE IF history[n].type = type /\ history[n].eid = eid
       THEN Some(history[n].task_id)
       ELSE LastTaskOf(history, n - 1, type, eid)

execScheduledById(history, eid) ==
  LastTaskOf(history, Len(history), "ACTIVITY_SCHEDULED", eid)

timerScheduledById(history, eid) ==
  LastTaskOf(history, Len(history), "TIMER_SCHEDULED", eid)

\* indexHistory().execCompletedByTask[task_id]: the result of the last
\* ACTIVITY_COMPLETED event of the task; <<>> is JavaScript's undefined (no
\* such event, or an event without a result).
RECURSIVE LastResultOf(_, _, _)
LastResultOf(history, n, task_id) ==
  IF n = 0 THEN None
  ELSE IF history[n].type = "ACTIVITY_COMPLETED" /\ history[n].task_id = task_id
       THEN history[n].result
       ELSE LastResultOf(history, n - 1, task_id)

execCompletedByTask(history, task_id) ==
  LastResultOf(history, Len(history), task_id)

timerFiredByTask(history, task_id) ==
  \E n \in 1..Len(history) :
    history[n].type = "TIMER_FIRED" /\ history[n].task_id = task_id

\* slotOf taking every effect that is not done for one not scheduled yet.
slotOfNeverWaiting(history, eid, kind) ==
  IF kind = "exec"
  THEN LET taskId == execScheduledById(history, eid)
       IN IF IsSome(taskId) /\ IsSome(execCompletedByTask(history, Val(taskId)))
          THEN "done" ELSE "pending"
  ELSE IF kind = "sleep"
  THEN LET taskId == timerScheduledById(history, eid)
       IN IF IsSome(taskId) /\ timerFiredByTask(history, Val(taskId))
          THEN "done" ELSE "pending"
  ELSE "na"

\* slotOf(): the slot of an effect id in the indexed history.
slotOf(history, eid, kind) ==
  IF kind = "exec"
  THEN LET taskId == execScheduledById(history, eid)
       IN IF ~IsSome(taskId) THEN "pending"
          ELSE IF IsSome(execCompletedByTask(history, Val(taskId)))
               THEN "done" ELSE "waiting"
  ELSE IF kind = "sleep"
  THEN LET taskId == timerScheduledById(history, eid)
       IN IF ~IsSome(taskId) THEN "pending"
          ELSE IF timerFiredByTask(history, Val(taskId))
               THEN "done" ELSE "waiting"
  ELSE "na"

\* Command: one record shape for the union; seconds and until are None
\* when the command does not give them.
SetCmd(key, value) ==
  [type |-> "set", key |-> key, value |-> value, eid |-> <<>>,
   seconds |-> None, until |-> None, max_tries |-> None, run_after |-> None,
   retry_delays |-> None, idem_key |-> None]

ExecCmd(eid, o) ==
  [type |-> "exec", key |-> "", value |-> 0, eid |-> eid,
   seconds |-> None, until |-> None, max_tries |-> o.maxTries,
   run_after |-> o.runAfter,
   retry_delays |-> o.retryDelays, idem_key |-> o.idemKey]

SleepCmd(eid, seconds) ==
  [type |-> "sleep", key |-> "", value |-> 0, eid |-> eid,
   seconds |-> Some(seconds), until |-> None, max_tries |-> None,
   run_after |-> None, retry_delays |-> None, idem_key |-> None]

\* A sleep command as a decider written by hand may return it: seconds and
\* until each given or not.
RawSleepCmd(eid, seconds, until) ==
  [SleepCmd(eid, 0) EXCEPT !.seconds = seconds, !.until = until]

CompleteCmd ==
  [type |-> "complete_workflow", key |-> "", value |-> 0, eid |-> <<>>,
   seconds |-> None, until |-> None, max_tries |-> None, run_after |-> None,
   retry_delays |-> None, idem_key |-> None]

SigKey(name) == "$wf.sigCount." \o name

\* The dot-path setter (engine setPath and the interpreter's setInternal
\* walk alike) on the keys the interpreter writes: "$wf" replaces the
\* subtree by {cursor: 0, sigCount: {}}; "$wf.cursor" and
\* "$wf.sigCount.<name>" create the objects on their path when missing;
\* "result" is top level.
setPath(ctx, key, value) ==
  LET wf == IF IsSome(ctx.wf) THEN Val(ctx.wf)
            ELSE [cursor |-> 0, sigCount |-> ZeroCount]
  IN CASE key = "$wf" ->
            [ctx EXCEPT !.wf = Some([cursor |-> 0, sigCount |-> ZeroCount])]
       [] key = "$wf.cursor" ->
            [ctx EXCEPT !.wf = Some([wf EXCEPT !.cursor = value])]
       [] \E n \in SigNames : key = SigKey(n) ->
            LET n == CHOOSE m \in SigNames : key = SigKey(m)
            IN [ctx EXCEPT !.wf = Some([wf EXCEPT !.sigCount[n] = value])]
       [] key = "result" -> [ctx EXCEPT !.result = Some(value)]
       [] key = "i" -> [ctx EXCEPT !.i = Some(value)]
       [] OTHER -> ctx

\* indexHistory().signalsByName[name]: the SIGNAL events of the name, in
\* history order (ts and payload; the payload is held in the result field).
signalsByName(history, name) ==
  SelectSeq(history, LAMBDA e : e.type = "SIGNAL" /\ e.key = name)

\* indexHistory().raceOrder: the task ids of the ACTIVITY_COMPLETED and
\* TIMER_FIRED events, in history order.
raceOrder(history) ==
  LET sel == SelectSeq(history, LAMBDA e :
                         e.type \in {"ACTIVITY_COMPLETED", "TIMER_FIRED"})
  IN [k \in 1..Len(sel) |-> sel[k].task_id]

\* sigCount[name] ?? 0, where sigCount = ctx.$wf?.sigCount ?? {} was bound
\* when interpret() began: the object inside ctx when ctx.$wf existed then
\* (alias), and otherwise a fresh {} that setInternal never writes.
consumedOf(ctx, alias, name) ==
  IF alias THEN Val(ctx.wf).sigCount[name] ELSE 0

\* What the generator is fed for an effect: value for exec, sleep (<<>>:
\* undefined) and signal, values for all, key and value for race.
Fed(kind, key, value, values) ==
  [kind |-> kind, key |-> key, value |-> value, values |-> values]

\* The effect id of child k (from 1, in key order) of the effect with id
\* <<c>>: `${eid}.${i}` for an all, `${eid}.${key}` for a race, both held as
\* <<c, k - 1>>.
ChildId(c, k) == <<c, k - 1>>

\* The value of a done exec slot.
slotValue(history, eid) ==
  execCompletedByTask(history, Val(execScheduledById(history, eid)))

\* The commands an all or a race pushes for its pending children, from
\* child k on.
RECURSIVE pendingChildCmds(_, _, _, _, _)
pendingChildCmds(history, ctx, c, children, k) ==
  IF k > Len(children) THEN <<>>
  ELSE
    LET child == children[k]
        cid == ChildId(c, k)
        cmd == IF slotOf(history, cid, child.kind) # "pending" THEN <<>>
               ELSE IF child.kind = "exec"
               THEN <<ExecCmd(cid, MergeOpts(ctx.params, NoOpts))>>
               ELSE <<SleepCmd(cid, child.seconds)>>
    IN cmd \o pendingChildCmds(history, ctx, c, children, k + 1)

\* race: the signal child that wins, 0 when none has an unconsumed signal:
\* the least ts of the next unconsumed signals, the first in key order
\* among equals (cand.ts < sigWinner.ts).
sigWinner(history, ctx, alias, children) ==
  LET next(k) == signalsByName(history, children[k].name)
                   [consumedOf(ctx, alias, children[k].name) + 1]
      cands == {k \in 1..Len(children) :
                  /\ children[k].kind = "signal"
                  /\ Len(signalsByName(history, children[k].name))
                       > consumedOf(ctx, alias, children[k].name)}
  IN IF cands = {} THEN 0
     ELSE CHOOSE k \in cands :
            /\ \A j \in cands : next(k).ts <= next(j).ts
            /\ \A j \in cands : j < k => next(j).ts > next(k).ts

\* race: keyByTask[tid], the last child in key order scheduled under task
\* id tid (0: none).
keyByTask(history, c, children, tid) ==
  LET ks == {k \in 1..Len(children) :
               \/ /\ children[k].kind = "exec"
                  /\ execScheduledById(history, ChildId(c, k)) = Some(tid)
               \/ /\ children[k].kind = "sleep"
                  /\ timerScheduledById(history, ChildId(c, k)) = Some(tid)}
  IN IF ks = {} THEN 0 ELSE CHOOSE k \in ks : \A j \in ks : j <= k

\* race: the exec or sleep child that wins, 0 when none: the first task of
\* raceOrder that belongs to a child whose slot is done.
doneWinner(history, c, children) ==
  LET order == raceOrder(history)
      wins(p) == LET k == keyByTask(history, c, children, order[p])
                 IN k # 0 /\ slotOf(history, ChildId(c, k), children[k].kind)
                               = "done"
      ps == {p \in 1..Len(order) : wins(p)}
  IN IF ps = {} THEN 0
     ELSE keyByTask(history, c, children,
                    order[CHOOSE p \in ps : \A q \in ps : p <= q])

\* The replay loop of interpret() from effect i of the generator gen on:
\* cursor counts the effects yielded so far, ctx is the mirror setInternal
\* mutates (the object the caller passed), setCmds and commands are the two
\* staged lists, fed lists the inputs given to iter.next so far.  The result
\* holds the mutated ctx, the command list, fed, and the effect (at) the
\* generator stopped at.
RECURSIVE Replay(_, _, _, _, _, _, _, _, _)
Replay(gen, history, i, cursor, ctx, alias, setCmds, commands, fed) ==
  IF i > Len(gen)
  THEN [ctx |-> ctx, cmds |-> setCmds \o Append(commands, CompleteCmd),
        fed |-> fed, at |-> i]
  ELSE
    LET eff == gen[i]
        c == cursor + 1
        ctx1 == setPath(ctx, "$wf.cursor", c)
        sets1 == Append(setCmds, SetCmd("$wf.cursor", c))
        eid == <<c>>
        sl == slotOf(history, eid, eff.kind)
        Stop(cmds) == [ctx |-> ctx1, cmds |-> sets1 \o cmds, fed |-> fed,
                       at |-> i]
    IN CASE eff.kind = "exec" ->
              IF sl = "done"
              THEN Replay(gen, history, i + 1, c, ctx1, alias, sets1, commands,
                          Append(fed, Fed("exec", "",
                                          slotValue(history, eid), <<>>)))
              ELSE Stop(IF sl = "pending"
                        THEN Append(commands,
                                    ExecCmd(eid, MergeOpts(ctx.params,
                                                           eff.opts)))
                        ELSE commands)
         [] eff.kind = "sleep" ->
              IF sl = "done"
              THEN Replay(gen, history, i + 1, c, ctx1, alias, sets1, commands,
                          Append(fed, Fed("sleep", "", None, <<>>)))
              ELSE Stop(IF sl = "pending"
                        THEN Append(commands, SleepCmd(eid, eff.seconds))
                        ELSE commands)
         [] eff.kind = "signal" ->
              LET consumed == consumedOf(ctx1, alias, eff.name)
                  list == signalsByName(history, eff.name)
              IN IF Len(list) > consumed
                 THEN Replay(gen, history, i + 1, c,
                             setPath(ctx1, SigKey(eff.name), consumed + 1),
                             alias,
                             Append(sets1,
                                    SetCmd(SigKey(eff.name), consumed + 1)),
                             commands,
                             Append(fed, Fed("signal", "",
                                             list[consumed + 1].result, <<>>)))
                 ELSE Stop(commands)
         [] eff.kind = "set" ->
              Replay(gen, history, i + 1, c,
                     setPath(ctx1, eff.name, eff.seconds), alias,
                     Append(sets1, SetCmd(eff.name, eff.seconds)), commands,
                     Append(fed, Fed("set", "", None, <<>>)))
         [] eff.kind = "complete" ->
              IF eff.name = "" THEN Stop(Append(commands, CompleteCmd))
              ELSE [ctx |-> setPath(ctx1, "result", eff.seconds),
                    cmds |-> Append(sets1, SetCmd("result", eff.seconds))
                               \o Append(commands, CompleteCmd),
                    fed |-> fed, at |-> i]
         [] eff.kind = "all" ->
              LET ch == eff.children
                  st(k) == slotOf(history, ChildId(c, k), ch[k].kind)
                  cmds2 == commands
                             \o pendingChildCmds(history, ctx1, c, ch, 1)
                  allDone == \A k \in 1..Len(ch) :
                               st(k) \notin {"pending", "waiting"}
                  results == [k \in 1..Len(ch) |->
                                IF st(k) = "done" /\ ch[k].kind = "exec"
                                THEN slotValue(history, ChildId(c, k))
                                ELSE None]
              IN IF allDone
                 THEN Replay(gen, history, i + 1, c, ctx1, alias, sets1, cmds2,
                             Append(fed, Fed("all", "", None, results)))
                 ELSE Stop(cmds2)
         [] eff.kind = "race" ->
              LET ch == eff.children
                  cmds2 == commands
                             \o pendingChildCmds(history, ctx1, c, ch, 1)
                  sw == sigWinner(history, ctx1, alias, ch)
                  dw == doneWinner(history, c, ch)
              IN IF sw # 0
                 THEN LET consumed == consumedOf(ctx1, alias, ch[sw].name)
                          list == signalsByName(history, ch[sw].name)
                      IN Replay(gen, history, i + 1, c,
                                setPath(ctx1, SigKey(ch[sw].name),
                                        consumed + 1),
                                alias,
                                Append(sets1, SetCmd(SigKey(ch[sw].name),
                                                     consumed + 1)),
                                cmds2,
                                Append(fed, Fed("race", ch[sw].key,
                                                list[consumed + 1].result,
                                                <<>>)))
                 ELSE IF dw # 0
                 THEN Replay(gen, history, i + 1, c, ctx1, alias, sets1, cmds2,
                             Append(fed,
                                    Fed("race", ch[dw].key,
                                        IF ch[dw].kind = "exec"
                                        THEN slotValue(history, ChildId(c, dw))
                                        ELSE None,
                                        <<>>)))
                 ELSE Stop(cmds2)

\* interpret(gen, ctx, history): the decider defineWorkflow builds from gen.
interpret(gen, ctx, history) ==
  Replay(gen, history, 1, 0, ctx, IsSome(ctx.wf),
         IF ~IsSome(ctx.wf) THEN <<SetCmd("$wf", 0)>> ELSE <<>>,
         <<>>, <<>>)

\* ------------------------------------------------------- command application
nextTaskId(s) == [s EXCEPT !.seq = @ + 1]

\* (seconds == null) === (until == null): scheduleSleep throws.
SleepRejected(seconds, until) == (seconds = None) = (until = None)

\* The state is left as it is when the command is rejected: the throw ends
\* the tick (TickThrows) and the state is dropped.
scheduleSleep(s, tNow, seconds, until, eid) ==
  IF SleepRejected(seconds, until) THEN s
  ELSE
    LET s1 == nextTaskId(s)
        id == s1.seq
        runAfter == IF IsSome(until) THEN Val(until) ELSE tNow + Val(seconds)
        s2 == [s1 EXCEPT !.tasks = [k \in DOMAIN @ \cup {id} |->
                           IF k = id THEN SleepTask(id, runAfter, eid) ELSE @[k]]]
    IN logEvent(s2, Event("TIMER_SCHEDULED", tNow, id, eid, "", 0, None))

\* The task record is built (and handed to the TaskStore when one is
\* configured; none is here) but not entered in s.tasks.
scheduleExec(s, tNow, eid, run_after, idem_key, max_tries, retry_delays) ==
  LET s1 == nextTaskId(s)
      id == s1.seq
      task == [ExecTask(id,
                        IF IsSome(run_after) THEN Val(run_after) ELSE tNow,
                        eid,
                        IF IsSome(max_tries) THEN Val(max_tries)
                        ELSE DefaultMaxTries)
                 EXCEPT !.idem_key = idem_key,
                        !.retry_delays = IF IsSome(retry_delays)
                                         THEN Val(retry_delays) ELSE <<>>]
  IN logEvent(s1, Event("ACTIVITY_SCHEDULED", tNow, task.id, eid, "", 0, None))

applyCommand(s, c, tNow) ==
  CASE c.type = "sleep" -> scheduleSleep(s, tNow, c.seconds, c.until, c.eid)
    [] c.type = "exec" -> scheduleExec(s, tNow, c.eid, c.run_after, c.idem_key,
                                       c.max_tries, c.retry_delays)
    [] c.type = "set" ->
         logEvent([s EXCEPT !.ctx = setPath(@, c.key, c.value)],
                  Event("CTX_SET", tNow, 0, <<>>, c.key, 0, None))
    [] c.type = "complete_workflow" ->
         logEvent([s EXCEPT !.status = "completed"],
                  Event("WF_COMPLETED", tNow, 0, <<>>, "", 0, None))

RECURSIVE applyCommands(_, _, _)
applyCommands(s, cmds, tNow) ==
  IF cmds = <<>> THEN s
  ELSE applyCommands(applyCommand(s, Head(cmds), tNow), Tail(cmds), tNow)

\* computeNextWake over the pending tasks only.
computeNextWakePendingOnly(s) ==
  LET due == {s.tasks[k].run_after : k \in {j \in DOMAIN s.tasks :
                                            s.tasks[j].status = "pending"}}
  IN IF due = {} THEN None
     ELSE Some(CHOOSE x \in due : \A y \in due : x <= y)

computeNextWake(s) ==
  LET due == {s.tasks[k].run_after : k \in {j \in DOMAIN s.tasks :
                                            s.tasks[j].status = "pending"}}
             \cup
             {Val(s.tasks[k].lease).expires_at : k \in {j \in DOMAIN s.tasks :
                  s.tasks[j].status = "leased" /\ IsSome(s.tasks[j].lease)}}
  IN IF due = {} THEN None
     ELSE Some(CHOOSE x \in due : \A y \in due : x <= y)

\* ------------------------------------------------------------------ create
\* The WFState literal of create(): history is still empty.
NewState(t, params) ==
  [rev |-> 0, status |-> "running", created_at |-> t, updated_at |-> t,
   ctx |-> Ctx(params), history |-> <<>>, tasks |-> <<>>,
   need_decide |-> TRUE, next_wake |-> None, seq |-> 0, decider |-> "main",
   signals |-> <<>>, last_seq |-> 0]

WFCreated(t) == Event("WF_CREATED", t, 0, <<>>, "", 0, None)

\* -------------------------------------------------------------------- tick
\* fireTimers that does not look at the status of a sleep task.
RECURSIVE fireTimersAgain(_, _, _)
fireTimersAgain(s, ids, tNow) ==
  IF ids = <<>> THEN s
  ELSE
    LET task == s.tasks[Head(ids)]
        s1 == IF task.type = "sleep" /\ task.run_after <= tNow
              THEN [logEvent([s EXCEPT !.tasks[task.id].status = "completed"],
                             Event("TIMER_FIRED", tNow, task.id, task.eid,
                                   "", 0, None))
                      EXCEPT !.need_decide = TRUE]
              ELSE s
    IN fireTimersAgain(s1, Tail(ids), tNow)

RECURSIVE fireTimers(_, _, _)
fireTimers(s, ids, tNow) ==
  IF ids = <<>> THEN s
  ELSE
    LET task == s.tasks[Head(ids)]
        s1 == IF task.type = "sleep" /\ task.status = "pending"
                 /\ task.run_after <= tNow
              THEN [logEvent([s EXCEPT !.tasks[task.id].status = "completed"],
                             Event("TIMER_FIRED", tNow, task.id, task.eid,
                                   "", 0, None))
                      EXCEPT !.need_decide = TRUE]
              ELSE s
    IN fireTimers(s1, Tail(ids), tNow)

\* Two deciders written without defineWorkflow.  Each sets i, schedules a
\* timer of 2 seconds on its first invocation, and once that timer has fired
\* returns a sleep command that scheduleSleep rejects: with neither seconds
\* nor until, or with both.
\*   (ctx, history) => {
\*     const cmds = [{ type: "set", key: "i", value: 1 }];
\*     if (!history.some((e) => e.type === "TIMER_SCHEDULED"))
\*       cmds.push({ type: "sleep", seconds: 2, label: "S:1" });
\*     else if (history.some((e) => e.type === "TIMER_FIRED"))
\*       cmds.push({ type: "sleep", label: "S:2" });   // or seconds and until
\*     return cmds; }
RawDeciderNames == {"sleep_neither", "sleep_both"}

RawDecider(name, ctx, history) ==
  LET has(type) == \E k \in 1..Len(history) : history[k].type = type
      bad == IF name = "sleep_neither" THEN RawSleepCmd(<<2>>, None, None)
             ELSE RawSleepCmd(<<2>>, Some(2), Some(MaxTime))
  IN [ctx |-> ctx,
      cmds |-> <<SetCmd("i", 1)>>
               \o (IF ~has("TIMER_SCHEDULED") THEN <<SleepCmd(<<1>>, 2)>>
                   ELSE IF has("TIMER_FIRED") THEN <<bad>> ELSE <<>>),
      fed |-> <<>>, at |-> 0]

\* this.deciders.get(s.decider)(s.ctx, s.history).
decide(name, ctx, history) ==
  IF name \in RawDeciderNames THEN RawDecider(name, ctx, history)
  ELSE interpret(Deciders[name], ctx, history)

\* What follows the decider's return r (the ctx it mutated, its commands):
\* the commands are applied and need_decide is cleared.
applyDecision(s, r, tNow) ==
  [applyCommands([s EXCEPT !.ctx = r.ctx], r.cmds, tNow)
     EXCEPT !.need_decide = FALSE]

\* runDecider without the test of the workflow status.
runDeciderAnyStatus(s, tNow) ==
  IF s.need_decide
  THEN applyDecision(s, decide(s.decider, s.ctx, s.history), tNow)
  ELSE s

runDecider(s, tNow) ==
  IF s.status = "running" /\ s.need_decide
  THEN applyDecision(s, decide(s.decider, s.ctx, s.history), tNow)
  ELSE s

\* applyCommands throws: one of the commands is a sleep that scheduleSleep
\* rejects.
CommandsThrow(cmds) ==
  \E k \in 1..Len(cmds) :
    cmds[k].type = "sleep" /\ SleepRejected(cmds[k].seconds, cmds[k].until)

\* The decider is invoked on s and applyCommands throws on what it returns.
DecisionThrows(s) ==
  /\ s.status = "running"
  /\ s.need_decide
  /\ CommandsThrow(decide(s.decider, s.ctx, s.history).cmds)

\* TickThrows of a tick that lets every sleep command through.
TickThrowsNever(s, tNow) == FALSE

\* tick at tNow on state s throws out of step 2, before its put.
TickThrows(s, tNow) ==
  DecisionThrows(fireTimers(s, SortedIds(DOMAIN s.tasks), tNow))

\* Step 3 of tick: next_wake and updated_at.
stampNextWake(s, tNow) ==
  [s EXCEPT !.next_wake = computeNextWake(s), !.updated_at = tNow]

TickBody(s, tNow) ==
  stampNextWake(runDecider(fireTimers(s, SortedIds(DOMAIN s.tasks), tNow),
                           tNow),
                tNow)

\* ------------------------------------------------- reserveReadyActivities
\* StillLeased with the comparison turned round.
StillLeasedReversed(tsk, tNow) ==
  tsk.status = "leased" /\ IsSome(tsk.lease)
  /\ Val(tsk.lease).expires_at < tNow

\* "if leased, check expiry": the task is skipped as still leased.
StillLeased(tsk, tNow) ==
  tsk.status = "leased" /\ IsSome(tsk.lease)
  /\ Val(tsk.lease).expires_at > tNow

\* Grant without storing the incremented fence.
GrantFenceNotStored(tsk, workerId, leaseSecs, tNow) ==
  LET nextToken == tsk.fence + 1
  IN [tsk EXCEPT !.status = "leased",
                 !.lease = Some(Lease(workerId, nextToken, tNow + leaseSecs))]

\* The lease a due task is given.
Grant(tsk, workerId, leaseSecs, tNow) ==
  LET nextToken == tsk.fence + 1
  IN [tsk EXCEPT !.status = "leased",
                 !.fence = nextToken,
                 !.lease = Some(Lease(workerId, nextToken, tNow + leaseSecs))]

\* reserveLoop that does not skip completed and failed tasks.
RECURSIVE reserveLoopTerminalToo(_, _, _, _, _, _, _)
reserveLoopTerminalToo(s, ids, leased, workerId, maxN, leaseSecs, tNow) ==
  IF ids = <<>> THEN [s |-> s, leased |-> leased]
  ELSE
    LET tsk == s.tasks[Head(ids)]
    IN IF tsk.type # "exec"
          \/ StillLeased(tsk, tNow) \/ ~(tsk.run_after <= tNow)
       THEN reserveLoopTerminalToo(s, Tail(ids), leased, workerId, maxN,
                                   leaseSecs, tNow)
       ELSE
         LET t2 == Grant(tsk, workerId, leaseSecs, tNow)
             s2 == [s EXCEPT !.tasks[tsk.id] = t2]
             l2 == Append(leased, t2)
         IN IF Len(l2) >= maxN THEN [s |-> s2, leased |-> l2]
            ELSE reserveLoopTerminalToo(s2, Tail(ids), l2, workerId, maxN,
                                        leaseSecs, tNow)

\* reserveLoop that does not stop at maxN.
RECURSIVE reserveLoopNoLimit(_, _, _, _, _, _, _)
reserveLoopNoLimit(s, ids, leased, workerId, maxN, leaseSecs, tNow) ==
  IF ids = <<>> THEN [s |-> s, leased |-> leased]
  ELSE
    LET tsk == s.tasks[Head(ids)]
    IN IF tsk.type # "exec" \/ tsk.status \in {"completed", "failed"}
          \/ StillLeased(tsk, tNow) \/ ~(tsk.run_after <= tNow)
       THEN reserveLoopNoLimit(s, Tail(ids), leased, workerId, maxN, leaseSecs,
                               tNow)
       ELSE
         LET t2 == Grant(tsk, workerId, leaseSecs, tNow)
         IN reserveLoopNoLimit([s EXCEPT !.tasks[tsk.id] = t2], Tail(ids),
                               Append(leased, t2), workerId, maxN, leaseSecs,
                               tNow)

RECURSIVE reserveLoop(_, _, _, _, _, _, _)
reserveLoop(s, ids, leased, workerId, maxN, leaseSecs, tNow) ==
  IF ids = <<>> THEN [s |-> s, leased |-> leased]
  ELSE
    LET tsk == s.tasks[Head(ids)]
    IN IF tsk.type # "exec" \/ tsk.status \in {"completed", "failed"}
          \/ StillLeased(tsk, tNow) \/ ~(tsk.run_after <= tNow)
       THEN reserveLoop(s, Tail(ids), leased, workerId, maxN, leaseSecs, tNow)
       ELSE
         LET t2 == Grant(tsk, workerId, leaseSecs, tNow)
             s2 == [s EXCEPT !.tasks[tsk.id] = t2]
             l2 == Append(leased, t2)
         IN IF Len(l2) >= maxN THEN [s |-> s2, leased |-> l2]
            ELSE reserveLoop(s2, Tail(ids), l2, workerId, maxN, leaseSecs, tNow)

ReserveBody(s, workerId, maxN, leaseSecs, tNow) ==
  reserveLoop(s, SortedIds(DOMAIN s.tasks), <<>>, workerId, maxN, leaseSecs,
              tNow)

\* -------------------------------------------------------- completeActivity
\* FencingGuard without the token comparison.
FencingGuardNoToken(t, leaseToken) ==
  t.status # "leased" \/ ~IsSome(t.lease)

\* The fencing guard: TRUE when the call is stale or not the lessee's.
FencingGuard(t, leaseToken) ==
  t.status # "leased" \/ ~IsSome(t.lease)
  \/ (IsSome(leaseToken) /\ Val(t.lease).token # Val(leaseToken))

\* Backoff from the number of tries before the increment.
BackoffBeforeIncrement(retry_delays, tries) ==
  IF tries - 1 >= 1 /\ tries - 1 <= Len(retry_delays)
  THEN retry_delays[tries - 1]
  ELSE Min2(MaxBackoff, Pow2(tries - 1))

\* The retry delay of a failed attempt, tries counted after its increment:
\* t.retry_delays?.[t.tries - 1] ?? Math.min(300, 2 ** t.tries).
Backoff(retry_delays, tries) ==
  IF tries <= Len(retry_delays) THEN retry_delays[tries]
  ELSE Min2(MaxBackoff, Pow2(tries))

\* CompleteSuccess that records the result and leaves the task leased.
CompleteSuccessStaysLeased(s, taskId, result, tNow) ==
  logEvent([s EXCEPT !.tasks[taskId].result = result],
           Event("ACTIVITY_COMPLETED", tNow, taskId, <<>>, "", 0, result))

CompleteSuccess(s, taskId, result, tNow) ==
  logEvent([s EXCEPT !.tasks[taskId].status = "completed",
                     !.tasks[taskId].result = result],
           Event("ACTIVITY_COMPLETED", tNow, taskId, <<>>, "", 0, result))

\* CompleteFailure that leaves a retried task leased under its old lease.
CompleteFailureKeepsLease(s, taskId, tNow) ==
  LET t == s.tasks[taskId]
      tries == t.tries + 1
      s1 == [s EXCEPT !.tasks[taskId].tries = tries,
                      !.tasks[taskId].error = Some("non_retryable")]
  IN IF tries >= t.max_tries
     THEN [logEvent([s1 EXCEPT !.tasks[taskId].status = "failed"],
                    Event("ACTIVITY_FAILED", tNow, taskId, <<>>, "", 0, None))
             EXCEPT !.status = "failed"]
     ELSE logEvent([s1 EXCEPT !.tasks[taskId].run_after = tNow + Backoff(t.retry_delays, tries)],
                   Event("ACTIVITY_RETRY", tNow, taskId, <<>>, "",
                         Backoff(t.retry_delays, tries), None))

\* CompleteFailure that gives up one failure later (tries > max_tries).
CompleteFailureOneMoreTry(s, taskId, tNow) ==
  LET t == s.tasks[taskId]
      tries == t.tries + 1
      s1 == [s EXCEPT !.tasks[taskId].tries = tries,
                      !.tasks[taskId].error = Some("non_retryable")]
  IN IF tries > t.max_tries
     THEN [logEvent([s1 EXCEPT !.tasks[taskId].status = "failed"],
                    Event("ACTIVITY_FAILED", tNow, taskId, <<>>, "", 0, None))
             EXCEPT !.status = "failed"]
     ELSE logEvent([s1 EXCEPT !.tasks[taskId].status = "pending",
                              !.tasks[taskId].lease = None,
                              !.tasks[taskId].run_after = tNow + Backoff(t.retry_delays, tries)],
                   Event("ACTIVITY_RETRY", tNow, taskId, <<>>, "",
                         Backoff(t.retry_delays, tries), None))

CompleteFailure(s, taskId, tNow) ==
  LET t == s.tasks[taskId]
      tries == t.tries + 1
      s1 == [s EXCEPT !.tasks[taskId].tries = tries,
                      !.tasks[taskId].error = Some("non_retryable")]
  IN IF tries >= t.max_tries
     THEN [logEvent([s1 EXCEPT !.tasks[taskId].status = "failed"],
                    Event("ACTIVITY_FAILED", tNow, taskId, <<>>, "", 0, None))
             EXCEPT !.status = "failed"]
     ELSE logEvent([s1 EXCEPT !.tasks[taskId].status = "pending",
                              !.tasks[taskId].lease = None,
                              !.tasks[taskId].run_after = tNow + Backoff(t.retry_delays, tries)],
                   Event("ACTIVITY_RETRY", tNow, taskId, <<>>, "",
                         Backoff(t.retry_delays, tries), None))

\* already = TRUE: the call returns without a write.
CompleteBody(s, taskId, success, result, leaseToken, tNow) ==
  IF taskId \notin DOMAIN s.tasks THEN [already |-> TRUE, s |-> s]
  ELSE IF s.tasks[taskId].status \in {"completed", "failed"}
  THEN [already |-> TRUE, s |-> s]
  ELSE IF FencingGuard(s.tasks[taskId], leaseToken)
  THEN [already |-> TRUE, s |-> s]
  ELSE
    LET s1 == IF success THEN CompleteSuccess(s, taskId, result, tNow)
              ELSE CompleteFailure(s, taskId, tNow)
    IN [already |-> FALSE,
        s |-> [s1 EXCEPT !.need_decide = TRUE, !.updated_at = tNow]]

\* ------------------------------------------------------------- extendLease
\* err = "": the lease is extended; otherwise the message of the Error thrown.
\* ExtendBody that extends from tNow.
ExtendBodyFromNow(s, taskId, owner, token, extraSeconds, tNow) ==
  IF taskId \notin DOMAIN s.tasks THEN [err |-> "not leased", s |-> s]
  ELSE
    LET t == s.tasks[taskId]
    IN IF t.type # "exec" \/ t.status # "leased" \/ ~IsSome(t.lease)
       THEN [err |-> "not leased", s |-> s]
       ELSE IF Val(t.lease).owner # owner \/ Val(t.lease).token # token
       THEN [err |-> "not your lease", s |-> s]
       ELSE IF Val(t.lease).expires_at < tNow
       THEN [err |-> "lease expired", s |-> s]
       ELSE [err |-> "",
             s |-> [s EXCEPT !.tasks[taskId].lease =
                      Some([Val(t.lease) EXCEPT !.expires_at = tNow + extraSeconds])]]

\* ExtendBody that renews the lease under the next token.
ExtendBodyNewToken(s, taskId, owner, token, extraSeconds, tNow) ==
  IF taskId \notin DOMAIN s.tasks THEN [err |-> "not leased", s |-> s]
  ELSE
    LET t == s.tasks[taskId]
    IN IF t.type # "exec" \/ t.status # "leased" \/ ~IsSome(t.lease)
       THEN [err |-> "not leased", s |-> s]
       ELSE IF Val(t.lease).owner # owner \/ Val(t.lease).token # token
       THEN [err |-> "not your lease", s |-> s]
       ELSE IF Val(t.lease).expires_at < tNow
       THEN [err |-> "lease expired", s |-> s]
       ELSE [err |-> "",
             s |-> [s EXCEPT !.tasks[taskId].lease =
                      Some([Val(t.lease) EXCEPT !.expires_at = @ + extraSeconds,
                                                !.token = @ + 1])]]

ExtendBody(s, taskId, owner, token, extraSeconds, tNow) ==
  IF taskId \notin DOMAIN s.tasks THEN [err |-> "not leased", s |-> s]
  ELSE
    LET t == s.tasks[taskId]
    IN IF t.type # "exec" \/ t.status # "leased" \/ ~IsSome(t.lease)
       THEN [err |-> "not leased", s |-> s]
       ELSE IF Val(t.lease).owner # owner \/ Val(t.lease).token # token
       THEN [err |-> "not your lease", s |-> s]
       ELSE IF Val(t.lease).expires_at < tNow
       THEN [err |-> "lease expired", s |-> s]
       ELSE [err |-> "",
             s |-> [s EXCEPT !.tasks[taskId].lease =
                      Some([Val(t.lease) EXCEPT !.expires_at = @ + extraSeconds])]]

\* ------------------------------------------------------------------ signal
SignalBody(s, name, payload, tNow) ==
  LET s1 == [s EXCEPT !.signals = Append(@, [ts |-> tNow, name |-> name,
                                             payload |-> payload])]
      s2 == logEvent(s1, Event("SIGNAL", tNow, 0, <<>>, name, 0, payload))
  IN [s2 EXCEPT !.need_decide = TRUE, !.updated_at = tNow]

\* ------------------------------------------------------- InMemoryBlobStore
\* The record of the workflow's key: <<>> when absent.  The CAS tag 'r<rev>'
\* is the number rev.  JSON.stringify / JSON.parse copy the state.
\* NewRec that leaves the CAS token of an existing record as it is.
NewRecKeepsCas(rec, state) ==
  IF rec = None THEN Some([rev |-> 1, cas |-> 1, state |-> state])
  ELSE Some([rev |-> Val(rec).rev + 1, cas |-> Val(rec).cas,
             state |-> state])

NewRec(rec, state) ==
  IF rec = None THEN Some([rev |-> 1, cas |-> 1, state |-> state])
  ELSE Some([rev |-> Val(rec).rev + 1, cas |-> Val(rec).rev + 1,
             state |-> state])

\* PutAccepts that does not compare the tag of an existing blob.
PutAcceptsStaleCas(rec, cas) ==
  IF rec = None THEN cas = None
  ELSE cas # None

\* PutAccepts of a store that refuses every put on an existing blob.
PutAcceptsNewOnly(rec, cas) == rec = None /\ cas = None

\* PutAccepts that takes a null cas as "write whatever is stored".
PutAcceptsNullOverwrites(rec, cas) ==
  cas = None \/ (rec # None /\ Val(cas) = Val(rec).cas)

\* put(key, state, cas) writes (TRUE) or throws conflict (FALSE).
PutAccepts(rec, cas) ==
  IF rec = None THEN cas = None
  ELSE cas # None /\ Val(cas) = Val(rec).cas

\* ----------------------------------------------------------- engine calls
NoParams == NoOpts
ParamChoices == {NoParams, ExecOpts(Some(1), None, None, None)}
TaskIds == {1}
Tokens == {None, Some(1), Some(2)}
Results == {Some("r")}
MaxNs == {1}
LeaseSecs == {2}
ExtraSecs == {2}
SignalNames == {"A"}

\* The arguments of one engine call; worker holds workerId / owner, or the
\* name of a signal; secs holds leaseSecs / extraSeconds.
CallRec(op, tNow, taskId, success, result, token, worker, maxN, secs, params) ==
  [op |-> op, tNow |-> tNow, taskId |-> taskId, success |-> success,
   result |-> result, token |-> token, worker |-> worker, maxN |-> maxN,
   secs |-> secs, params |-> params]

CreateTimes == {0}

Calls ==
  {CallRec("create", t, 0, TRUE, None, None, "", 0, 0, pr) :
     t \in CreateTimes, pr \in ParamChoices}
  \cup {CallRec("tick", t, 0, TRUE, None, None, "", 0, 0, NoParams) :
     t \in Times}
  \cup {CallRec("reserve", t, 0, TRUE, None, None, w, n, l, NoParams) :
     t \in Times, w \in Workers, n \in MaxNs, l \in LeaseSecs}
  \cup {CallRec("complete", t, id, ok, IF ok THEN r ELSE None, tok, "", 0, 0,
                NoParams) :
     t \in Times, id \in TaskIds, ok \in BOOLEAN, r \in Results,
     tok \in Tokens}
  \cup {CallRec("extend", t, id, TRUE, None, tok, w, 0, x, NoParams) :
     t \in Times, id \in TaskIds, tok \in Tokens \ {None}, w \in Workers,
     x \in ExtraSecs}
  \cup {CallRec("signal", t, 0, TRUE, None, None, n, 0, 0, NoParams) :
     t \in Times, n \in SignalNames}

\* What a call returns (out = "ok", "already", "empty") or throws (any other
\* out); the fields an operation does not return hold 0, "", <<>>.
Ret(out, rev, status, next_wake, leased) ==
  [out |-> out, rev |-> rev, status |-> status, next_wake |-> next_wake,
   leased |-> leased]

NoRet == Ret("", 0, "", None, <<>>)

\* One pass of a call's retry loop up to its put: the store's get, then the
\* in-memory mutation.  put = FALSE: the call returns or throws ret without a
\* write; put = TRUE: it goes on to put s under the CAS tag it read, and
\* returns ret (with the new rev) when the put is accepted.
\* tick's pass of the loop with the state s1 it computed: the put and the
\* value returned after it.
TickAttempt(s1) ==
  [put |-> TRUE, s |-> Some(s1),
   ret |-> Ret("ok", 0, s1.status, s1.next_wake, <<>>)]

Attempt(c, rec) ==
  IF rec = None
  THEN [put |-> FALSE, s |-> None, ret |-> Ret("not found", 0, "", None, <<>>)]
  ELSE
    LET s == Val(rec).state
        rev == Val(rec).rev
    IN CASE c.op = "tick" ->
              IF TickThrows(s, c.tNow)
              THEN [put |-> FALSE, s |-> None,
                    ret |-> Ret("sleep requires exactly one of seconds or until",
                                0, "", None, <<>>)]
              ELSE TickAttempt(TickBody(s, c.tNow))
         [] c.op = "reserve" ->
              LET r == ReserveBody(s, c.worker, c.maxN, c.secs, c.tNow)
              IN IF r.leased = <<>>
                 THEN [put |-> FALSE, s |-> None,
                       ret |-> Ret("empty", 0, "", None, <<>>)]
                 ELSE [put |-> TRUE, s |-> Some(r.s),
                       ret |-> Ret("ok", 0, "", None, r.leased)]
         [] c.op = "complete" ->
              LET r == CompleteBody(s, c.taskId, c.success, c.result, c.token,
                                    c.tNow)
              IN IF r.already
                 THEN [put |-> FALSE, s |-> None,
                       ret |-> Ret("already", rev, s.status, None, <<>>)]
                 ELSE [put |-> TRUE, s |-> Some(r.s),
                       ret |-> Ret("ok", 0, r.s.status, None, <<>>)]
         [] c.op = "extend" ->
              LET r == ExtendBody(s, c.taskId, c.worker, Val(c.token), c.secs,
                                  c.tNow)
              IN IF r.err # ""
                 THEN [put |-> FALSE, s |-> None,
                       ret |-> Ret(r.err, 0, "", None, <<>>)]
                 ELSE [put |-> TRUE, s |-> Some(r.s),
                       ret |-> Ret("ok", 0, "", None, <<>>)]
         [] c.op = "signal" ->
              [put |-> TRUE, s |-> Some(SignalBody(s, c.worker, c.result, c.tNow)),
               ret |-> Ret("ok", 0, "", None, <<>>)]

\* The rev an accepted put adds to the returned value.
Returned(c, ret, rev) ==
  IF c.op \in {"tick", "complete", "signal"} THEN [ret EXCEPT !.rev = rev]
  ELSE ret

\* The call c run alone against the store record rec, from its first store
\* step to its return: the record it leaves and what it returns.  create
\* writes twice (the state without history, then with WF_CREATED); every
\* other call is one pass of its loop and the put that nothing disturbs.
RunAlone(c, rec) ==
  IF c.op = "create"
  THEN IF PutAccepts(rec, None)
       THEN LET s == NewState(c.tNow, c.params)
                r1 == NewRec(rec, s)
                r2 == NewRec(r1, logEvent(s, WFCreated(c.tNow)))
            IN [rec |-> r2, ret |-> Ret("ok", 0, "running", None, <<>>)]
       ELSE [rec |-> rec, ret |-> Ret("conflict", 0, "", None, <<>>)]
  ELSE LET a == Attempt(c, rec)
       IN IF a.put
          THEN LET r1 == NewRec(rec, Val(a.s))
               IN [rec |-> r1, ret |-> Returned(c, a.ret, Val(r1).rev)]
          ELSE [rec |-> rec, ret |-> a.ret]

\* ------------------------------------------------------------------- state
VARIABLES
  db,        \* the store's record of the workflow: <<>> or <<[rev, cas, state]>>
  pc,        \* per caller: where its call in flight stands ("idle": none)
  call,      \* per caller: the call in flight
  loc,       \* per caller: the in-memory state and the CAS tag it read
  ncalls,    \* calls issued so far
  nret,      \* calls that returned or threw so far
  issued,    \* history: <<task id, token>> of every lease written, in order
  accepted,  \* history: <<task id, token given>> of every completion written
  base,      \* history: the store when the calls in flight began to overlap
  since,     \* history: calls begun since then (3: three or more)
  win,       \* history: the calls returned since then, with their results
             \* (the last one only, and no base, once three calls overlap)
  es         \* the EventStore's events of the workflow by sequence number,
             \* as <<map>>; <<>> when the engine is constructed without one

\* One workflow driven call by call, for the claims about the decider:
VARIABLES
  ds,        \* the workflow state
  dlast,     \* the last tick: whether the decider ran, on what, and its result
  dn         \* steps taken so far

vars ==
  <<db, pc, call, loc, ncalls, nret, issued, accepted, base, since, win, es,
    ds, dlast, dn>>

evars ==
  <<db, pc, call, loc, ncalls, nret, issued, accepted, base, since, win, es>>

dvars == <<ds, dlast, dn>>

\* A blob found in the store at construction: a workflow created at time 0
\* and ticked once, with its first activity (effect 1) as a pending task.
StoredState(params) ==
  LET s0 == logEvent(NewState(0, params), WFCreated(0))
      s1 == TickBody(s0, 0)
      t1 == ExecTask(1, 0, <<1>>,
                     IF IsSome(params.maxTries) THEN Val(params.maxTries)
                     ELSE DefaultMaxTries)
  IN [s1 EXCEPT !.tasks = <<t1>>, !.next_wake = Some(0)]

\* The same workflow further on: its activity reserved by w1 and completed
\* at time 0, and ticked again, so that the timer of effect 2 is pending.
StoredStateTimer ==
  LET s0 == StoredState(NoParams)
      s1 == ReserveBody(s0, "w1", 1, 2, 0).s
      s2 == CompleteBody(s1, 1, TRUE, Some("r"), Some(1), 0).s
  IN TickBody(s2, 0)

\* A workflow of a decider written by hand, created at time 0 and ticked
\* once: its timer is pending.
StoredStateRaw(name) ==
  TickBody([logEvent(NewState(0, NoParams), WFCreated(0))
              EXCEPT !.decider = name], 0)

\* The first activity the history schedules.
FirstActivity(history) ==
  history[CHOOSE k \in 1..Len(history) :
            history[k].type = "ACTIVITY_SCHEDULED"]

\* The state with the task of the scheduled activity ev among its tasks,
\* pending and due at once.
WithExecTask(s, ev, max_tries) ==
  [s EXCEPT !.tasks = [k \in DOMAIN @ \cup {ev.task_id} |->
                         IF k = ev.task_id
                         THEN ExecTask(ev.task_id, 0, ev.eid, max_tries)
                         ELSE @[k]]]

WithFirstActivity(s, max_tries) ==
  WithExecTask(s, FirstActivity(s.history), max_tries)

WithNextWake(s) == [s EXCEPT !.next_wake = computeNextWake(s)]

\* A race workflow whose activities default to one try, created at time 0
\* and ticked once: its timer (task 2) is pending, and its activity (task 1,
\* the exec child of the race) is in the blob as a pending task.
StoredStateRace ==
  WithNextWake(
    WithFirstActivity(
      TickBody([logEvent(NewState(0, ExecOpts(Some(1), None, None, None)),
                         WFCreated(0)) EXCEPT !.decider = "race"], 0),
      1))

StoredRace == Some([rev |-> 3, cas |-> 3, state |-> StoredStateRace])

StoredRecs ==
  {Some([rev |-> 3, cas |-> 3, state |-> StoredState(pr)]) : pr \in ParamChoices}
  \cup {Some([rev |-> 6, cas |-> 6, state |-> StoredStateTimer])}
  \cup {Some([rev |-> 3, cas |-> 3, state |-> StoredStateRaw(n)]) :
          n \in RawDeciderNames}

\* The leases issued and the completions written before construction, as
\* the stored blob records them: task 1 holds tokens 1..fence, and is
\* completed only in StoredStateTimer (under token 1).
IssuedBefore(rec) ==
  IF rec = None THEN <<>>
  ELSE IF 1 \in DOMAIN Val(rec).state.tasks
       THEN [k \in 1..Val(rec).state.tasks[1].fence |-> <<1, k>>]
       ELSE <<>>

AcceptedBefore(rec) ==
  IF rec = None THEN <<>>
  ELSE IF 1 \in DOMAIN Val(rec).state.tasks
          /\ Val(rec).state.tasks[1].status = "completed"
       THEN << <<1, Some(1)>> >>
       ELSE <<>>

NoCall == CallRec("", 0, 0, TRUE, None, None, "", 0, 0, NoParams)

\* A workflow of the named decider as create leaves it when run alone.
CreatedWith(name, params) ==
  [logEvent(NewState(0, params), WFCreated(0)) EXCEPT !.decider = name]

Created(name) == CreatedWith(name, NoParams)

\* No decider invocation.
NoOut(ctx) == [ctx |-> ctx, cmds |-> <<>>, fed |-> <<>>, at |-> 0]

NotRun(s) == [ran |-> FALSE, seen |-> s, out |-> NoOut(s.ctx)]

Init ==
  /\ db \in {None} \cup StoredRecs
  /\ pc = [p \in Procs |-> "idle"]
  /\ call = [p \in Procs |-> NoCall]
  /\ loc = [p \in Procs |-> None]
  /\ ncalls = 0
  /\ nret = 0
  /\ issued = IssuedBefore(db)
  /\ accepted = AcceptedBefore(db)
  /\ base = db
  /\ since = 0
  /\ win = <<>>
  /\ es = None
  /\ ds = Created("main")
  /\ dlast = NotRun(ds)
  /\ dn = 0

Quiet == \A q \in Procs : pc[q] = "idle"

\* A call begins: alone, or overlapping the calls in flight.
Opens ==
  /\ ncalls < MaxCalls
  /\ ncalls' = ncalls + 1
  /\ IF Quiet THEN base' = db /\ since' = 1
     ELSE IF since = 1 THEN base' = base /\ since' = 2
     ELSE base' = None /\ since' = 3

\* The call c of caller p returns (or throws) r.
Returns(p, c, r) ==
  /\ pc' = [pc EXCEPT ![p] = "idle"]
  /\ call' = [call EXCEPT ![p] = NoCall]
  /\ loc' = [loc EXCEPT ![p] = None]
  /\ nret' = nret + 1
  /\ win' = IF since' <= 2 /\ ~Quiet
            THEN Append(win, [call |-> c, ret |-> r])
            ELSE <<[call |-> c, ret |-> r]>>

\* The call c of caller p goes on to its next store step.
GoesOn(p, c, to, l) ==
  /\ pc' = [pc EXCEPT ![p] = to]
  /\ call' = [call EXCEPT ![p] = c]
  /\ loc' = [loc EXCEPT ![p] = l]
  /\ nret' = nret
  /\ win' = IF since' <= 2 /\ ~Quiet THEN win ELSE <<>>

\* create: put(s, null), then logEvent(WF_CREATED) on the in-memory state.
Create(p) ==
  /\ pc[p] = "idle"
  /\ p = 1 \/ ~Quiet
  /\ Opens
  /\ \E c \in {x \in Calls : x.op = "create"} :
       LET s == NewState(c.tNow, c.params)
       IN IF PutAccepts(db, None)
          THEN /\ db' = NewRec(db, s)
               /\ GoesOn(p, c, "create_get",
                         Some([s |-> logEvent(s, WFCreated(c.tNow)),
                               cas |-> None]))
               /\ es' = Logs(es, 0, <<WFCreated(c.tNow)>>)
          ELSE /\ db' = db
               /\ Returns(p, c, Ret("conflict", 0, "", None, <<>>))
               /\ es' = es
  /\ UNCHANGED <<issued, accepted>>
  /\ UNCHANGED dvars

\* create: get(wfId), keeping the CAS tag read (got?.cas ?? null).
CreateGet(p) ==
  /\ pc[p] = "create_get"
  /\ loc' = [loc EXCEPT ![p] =
               Some([s |-> Val(loc[p]).s,
                     cas |-> IF db = None THEN None ELSE Some(Val(db).cas)])]
  /\ pc' = [pc EXCEPT ![p] = "create_put"]
  /\ UNCHANGED <<db, call, ncalls, nret, issued, accepted, base, since, win,
                 es>>
  /\ UNCHANGED dvars

\* create: put(s, cas); a conflict is thrown to the caller.
CreatePutAgain(p) ==
  /\ pc[p] = "create_put"
  /\ UNCHANGED <<ncalls, base, since>>
  /\ IF PutAccepts(db, Val(loc[p]).cas)
     THEN /\ db' = NewRec(db, Val(loc[p]).s)
          /\ Returns(p, call[p], Ret("ok", 0, "running", None, <<>>))
     ELSE /\ db' = db
          /\ Returns(p, call[p], Ret("conflict", 0, "", None, <<>>))
  /\ UNCHANGED <<issued, accepted, es>>
  /\ UNCHANGED dvars

\* The history in memory when a pass of the retry loop of call c ends:
\* that of the state it goes on to put, that of a tick that threw in
\* applyCommands, or the history it loaded.
LoggedHistory(c, rec, a) ==
  IF a.put THEN Val(a.s).history
  ELSE IF rec = None THEN <<>>
  ELSE IF c.op = "tick" /\ TickThrows(Val(rec).state, c.tNow)
       THEN TickBody(Val(rec).state, c.tNow).history
       ELSE Val(rec).state.history

LoadedLen(rec) == IF rec = None THEN 0 ELSE Len(Val(rec).state.history)

\* One pass of the retry loop of call c of caller p, up to its put; logEvent
\* has put the events of the pass in the EventStore by then.
Load(p, c) ==
  /\ \E a \in {Attempt(c, db)} :
        /\ IF a.put
           THEN GoesOn(p, [c EXCEPT !.params = NoParams], "put",
                       Some([s |-> Val(a.s), cas |-> Some(Val(db).cas),
                             ret |-> a.ret]))
           ELSE Returns(p, c, a.ret)
        /\ es' = Logs(es, LoadedLen(db), LoggedHistory(c, db, a))
  /\ UNCHANGED <<db, issued, accepted>>
  /\ UNCHANGED dvars

\* Callers are interchangeable: caller 1 issues the calls that begin while
\* no other is in flight, any other caller the calls that overlap one.
MayBegin(p) ==
  /\ pc[p] = "idle"
  /\ p = 1 \/ ~Quiet

CallsOf(op) == {x \in Calls : x.op = op}

Tick(p) ==
  /\ MayBegin(p)
  /\ Opens
  /\ \E c \in CallsOf("tick") : Load(p, c)

Reserve(p) ==
  /\ MayBegin(p)
  /\ Opens
  /\ \E c \in CallsOf("reserve") : Load(p, c)

Complete(p) ==
  /\ MayBegin(p)
  /\ Opens
  /\ \E c \in CallsOf("complete") : Load(p, c)

Extend(p) ==
  /\ MayBegin(p)
  /\ Opens
  /\ \E c \in CallsOf("extend") : Load(p, c)

Signal(p) ==
  /\ MayBegin(p)
  /\ Opens
  /\ \E c \in CallsOf("signal") : Load(p, c)

\* After a conflict: the loop starts over from get.
Retry(p) ==
  /\ pc[p] = "get"
  /\ UNCHANGED <<ncalls, base, since>>
  /\ Load(p, call[p])

\* The leases a written reservation issued.
LeasesOf(leased) ==
  [i \in 1..Len(leased) |-> <<leased[i].id, Val(leased[i].lease).token>>]

\* The tail of the retry loop: put under the CAS tag read; on conflict the
\* call starts over from get.
Put(p) ==
  /\ pc[p] = "put"
  /\ UNCHANGED <<ncalls, base, since, es>>
  /\ UNCHANGED dvars
  /\ IF PutAccepts(db, Val(loc[p]).cas)
     THEN /\ db' = NewRec(db, Val(loc[p]).s)
          /\ Returns(p, call[p],
                     Returned(call[p], Val(loc[p]).ret, Val(db').rev))
          /\ issued' = IF call[p].op = "reserve"
                       THEN issued \o LeasesOf(Val(loc[p]).ret.leased)
                       ELSE issued
          /\ accepted' = IF call[p].op = "complete"
                         THEN Append(accepted,
                                     <<call[p].taskId, call[p].token>>)
                         ELSE accepted
     ELSE /\ pc' = [pc EXCEPT ![p] = "get"]
          /\ loc' = [loc EXCEPT ![p] = None]
          /\ UNCHANGED <<db, call, nret, issued, accepted, win>>

Next ==
  \E p \in Procs :
    \/ Create(p)
    \/ CreateGet(p)
    \/ CreatePutAgain(p)
    \/ Tick(p)
    \/ Reserve(p)
    \/ Complete(p)
    \/ Extend(p)
    \/ Signal(p)
    \/ Retry(p)
    \/ Put(p)

Spec == Init /\ [][Next]_vars

\* The store answers every get and put, and a call that has its answer goes
\* on: each store step of a call in flight is taken in the end.
Fairness ==
  \A p \in Procs :
    /\ WF_vars(Retry(p))
    /\ WF_vars(Put(p))
    /\ WF_vars(CreateGet(p))
    /\ WF_vars(CreatePutAgain(p))

\* The engine over a store that starts empty, as InMemoryBlobStore is
\* constructed, with every store step of a call in flight taken in the end.
LiveInit == Init /\ db = None

SpecLive == LiveInit /\ [][Next]_vars /\ Fairness

\* The engine over a store that is empty or holds the race workflow.
RaceInit ==
  /\ db \in {None, StoredRace}
  /\ pc = [p \in Procs |-> "idle"]
  /\ call = [p \in Procs |-> NoCall]
  /\ loc = [p \in Procs |-> None]
  /\ ncalls = 0
  /\ nret = 0
  /\ issued = IssuedBefore(db)
  /\ accepted = AcceptedBefore(db)
  /\ base = db
  /\ since = 0
  /\ win = <<>>
  /\ es = None
  /\ ds = Created("main")
  /\ dlast = NotRun(ds)
  /\ dn = 0

SpecRace == RaceInit /\ [][Next]_vars

\* The engine constructed with an EventStore, both stores empty.
EventsInit ==
  /\ db = None
  /\ pc = [p \in Procs |-> "idle"]
  /\ call = [p \in Procs |-> NoCall]
  /\ loc = [p \in Procs |-> None]
  /\ ncalls = 0
  /\ nret = 0
  /\ issued = <<>>
  /\ accepted = <<>>
  /\ base = None
  /\ since = 0
  /\ win = <<>>
  /\ es = Some(<<>>)
  /\ ds = Created("main")
  /\ dlast = NotRun(ds)
  /\ dn = 0

SpecEvents == EventsInit /\ [][Next]_vars

\* ----------------------------------------- one workflow driven call by call
\* The second specification runs one workflow of each decider through
\* ticks, signals and activity completions that do not overlap, and records
\* what each decider invocation was handed and what it returned.
DeciderNames ==
  {"main", "signals", "race", "all", "signal_exec", "race_exec"}

\* The clock of the calls does not run backwards.
DTimes == {t \in Times : t >= ds.updated_at}

\* What an activity returns: a value, or nothing (result undefined).
DResults == {Some(7), None}

DeciderInit ==
  /\ db = None
  /\ pc = [p \in Procs |-> "idle"]
  /\ call = [p \in Procs |-> NoCall]
  /\ loc = [p \in Procs |-> None]
  /\ ncalls = 0
  /\ nret = 0
  /\ issued = <<>>
  /\ accepted = <<>>
  /\ base = None
  /\ since = 0
  /\ win = <<>>
  /\ es = None
  /\ ds \in {Created(n) : n \in DeciderNames}
  /\ dlast = NotRun(ds)
  /\ dn = 0

DStep ==
  /\ dn < MaxSteps
  /\ dn' = dn + 1
  /\ UNCHANGED evars

\* tick(wf, t) run alone: the decider, when it runs, is handed the state
\* left by the firing of the due timers.
TickAlone(t) ==
  \E s1 \in {fireTimers(ds, SortedIds(DOMAIN ds.tasks), t)} :
    /\ ds' = TickBody(ds, t)
    /\ dlast' = IF s1.status = "running" /\ s1.need_decide
                THEN [ran |-> TRUE, seen |-> s1,
                      out |-> interpret(Deciders[s1.decider], s1.ctx,
                                        s1.history)]
                ELSE NotRun(s1)

DTick ==
  /\ DStep
  /\ \E t \in DTimes : TickAlone(t)

\* signal(wf, name, payload, t) run alone; the payload is the number of the
\* signal in arrival order.
DSignal ==
  /\ DStep
  /\ \E n \in SigNames, t \in DTimes :
       ds' = SignalBody(ds, n, Some(Len(ds.signals) + 1), t)
  /\ dlast' = dlast

\* The exec tasks scheduled and not completed, by the history.
OpenActivities(history) ==
  {history[k].task_id : k \in {j \in 1..Len(history) :
                                 history[j].type = "ACTIVITY_SCHEDULED"}}
  \ {history[k].task_id : k \in {j \in 1..Len(history) :
                                   history[j].type = "ACTIVITY_COMPLETED"}}

\* A worker completes a scheduled activity with success: what an accepted
\* completeActivity leaves in the history and in need_decide.
CompletedAlone(id, r, t) ==
  /\ ds' = [logEvent(ds, Event("ACTIVITY_COMPLETED", t, id, <<>>, "", 0, r))
              EXCEPT !.need_decide = TRUE, !.updated_at = t]
  /\ dlast' = dlast

DActivityCompleted ==
  /\ DStep
  /\ \E id \in OpenActivities(ds.history), r \in DResults, t \in DTimes :
       CompletedAlone(id, r, t)

DeciderNext ==
  \/ DTick
  \/ DSignal
  \/ DActivityCompleted

SpecDecider == DeciderInit /\ [][DeciderNext]_vars

\* ------------------------------------------------------ workflows, run
\* The third specification runs a workflow as the runner does: ticks now, a
\* little later, or at next_wake, and the completion of each activity
\* scheduled; no signal is sent.  The workflows and the params of create:
\* hello from start = 0, and the two workflows of exec options with their
\* execDefaults.
RunChoices ==
  { <<"hello", NoParams>>,
    <<"opts_defaults", ExecOpts(Some(3), Some(<<3, 5>>), None, None)>>,
    <<"opts_override", ExecOpts(Some(3), Some(<<7, 7>>), None, None)>> }

RunnerInit ==
  /\ db = None
  /\ pc = [p \in Procs |-> "idle"]
  /\ call = [p \in Procs |-> NoCall]
  /\ loc = [p \in Procs |-> None]
  /\ ncalls = 0
  /\ nret = 0
  /\ issued = <<>>
  /\ accepted = <<>>
  /\ base = None
  /\ since = 0
  /\ win = <<>>
  /\ es = None
  /\ ds \in {CreatedWith(c[1], c[2]) : c \in RunChoices}
  /\ dlast = NotRun(ds)
  /\ dn = 0

\* The times of the next call: the time of the last one, one second on, or
\* next_wake.
RunTimes ==
  {t \in {ds.updated_at, ds.updated_at + 1}
          \cup (IF IsSome(ds.next_wake) THEN {Val(ds.next_wake)} ELSE {}) :
     ds.updated_at <= t /\ t <= RunTime}

RunStep ==
  /\ dn < RunSteps
  /\ dn' = dn + 1
  /\ UNCHANGED evars

RunTick ==
  /\ RunStep
  /\ \E t \in RunTimes : TickAlone(t)

RunComplete ==
  /\ RunStep
  /\ \E id \in OpenActivities(ds.history), r \in DResults :
       CompletedAlone(id, r, ds.updated_at)

RunnerNext ==
  \/ RunTick
  \/ RunComplete

SpecRunner == RunnerInit /\ [][RunnerNext]_vars

\* ================================================================= claims
StoredTasks == IF db = None THEN <<>> ELSE Val(db).state.tasks
StoredHistory == IF db = None THEN <<>> ELSE Val(db).state.history

\* The call that returned (or threw) last, and what it returned.
last == IF win = <<>> THEN [call |-> NoCall, ret |-> NoRet] ELSE win[Len(win)]

\* A call returns (or throws) in this step.
ReturnStep == nret' = nret + 1

\* ---------------------------------------------------------------------- C1
\* The completion c finds its task missing or not leased, or carries a token
\* that differs from the token of the task's lease.
StaleFor(s, c) ==
  \/ c.taskId \notin DOMAIN s.tasks
  \/ s.tasks[c.taskId].status # "leased"
  \/ /\ IsSome(c.token)
     /\ IsSome(s.tasks[c.taskId].lease)
     /\ Val(s.tasks[c.taskId].lease).token # Val(c.token)

\* C1: a completeActivity call that reads a state in which its task is not
\* leased, or whose lease_token differs from the lease's token, returns
\* already = true and writes nothing: the stored record (task, history,
\* need_decide, status, rev) is the same after the call.
C1_StaleCompletionIgnored ==
  [][(/\ ReturnStep
      /\ last'.call.op = "complete"
      /\ db # None
      /\ StaleFor(Val(db).state, last'.call))
     => (last'.ret.out = "already" /\ db' = db)]_vars

\* A completion under token 1 returned already = true while the task is
\* leased under token 2: the lease of the caller was superseded.
C1_Witness ==
  /\ last.call.op = "complete"
  /\ last.call.token = Some(1)
  /\ last.ret.out = "already"
  /\ 1 \in DOMAIN StoredTasks
  /\ StoredTasks[1].status = "leased"
  /\ Val(StoredTasks[1].lease).token = 2

\* ---------------------------------------------------------------------- C2
TokensOf(id) ==
  LET idx == {i \in 1..Len(issued) : issued[i][1] = id}
  IN [k \in 1..Cardinality(idx) |->
        issued[CHOOSE i \in idx :
                 Cardinality({j \in idx : j <= i}) = k][2]]

\* The tokens issued for a task are 1, 2, 3, ... in this order (so no two
\* reservations got the same token), and the stored fence is the last one.
FenceCountsTokens ==
  \A id \in TaskIds :
    /\ \A k \in 1..Len(TokensOf(id)) : TokensOf(id)[k] = k
    /\ (id \in DOMAIN StoredTasks /\ StoredTasks[id].type = "exec")
         => StoredTasks[id].fence = Len(TokensOf(id))

\* A write never lowers a fence; a written reservation raises the fence of
\* each task it leases by one and stores the new fence as the lease token.
FenceStep ==
  /\ \A id \in DOMAIN StoredTasks :
       (db' # None /\ id \in DOMAIN Val(db').state.tasks)
         => Val(db').state.tasks[id].fence >= StoredTasks[id].fence
  /\ \A i \in (Len(issued) + 1)..Len(issued') :
       LET id == issued'[i][1]
       IN /\ Val(db').state.tasks[id].fence = StoredTasks[id].fence + 1
          /\ Val(Val(db').state.tasks[id].lease).token
               = Val(db').state.tasks[id].fence
          /\ issued'[i][2] = Val(db').state.tasks[id].fence

\* C2: the fence of an exec task never decreases; each successful
\* reservation increases it by exactly 1 and issues lease.token = the new
\* fence, so the fence is the largest token issued for the task and no two
\* reservations of a task get the same token.
C2_FenceMonotonic == [](FenceCountsTokens) /\ [][FenceStep]_vars

\* The task was reserved again after its first lease expired: two tokens.
C2_Witness ==
  /\ Len(issued) = 2
  /\ issued[1] = <<1, 1>>
  /\ issued[2] = <<1, 2>>
  /\ StoredTasks[1].fence = 2
  /\ Val(StoredTasks[1].lease).owner = "w2"

\* ---------------------------------------------------------------------- C3
\* The task is leased and its lease runs beyond tNow.
UnexpiredAt(tsk, tNow) ==
  tsk.status = "leased" /\ IsSome(tsk.lease)
  /\ Val(tsk.lease).expires_at > tNow

\* C3: a reservation made with time t_now leaves alone every task that is
\* leased with lease.expires_at > t_now: it neither rewrites the task nor
\* returns it, whoever the caller.
C3_UnexpiredLeaseKept ==
  [][\A p \in Procs :
       (pc[p] = "put" /\ call[p].op = "reserve" /\ pc'[p] = "idle")
       => \A id \in DOMAIN StoredTasks :
            UnexpiredAt(StoredTasks[id], call[p].tNow)
            => /\ Val(db').state.tasks[id] = StoredTasks[id]
               /\ \A i \in 1..Len(last'.ret.leased) :
                    last'.ret.leased[i].id # id]_vars

\* A reservation by w2 found the task under w1's unexpired lease and
\* returned nothing.
C3_Witness ==
  /\ last.call.op = "reserve"
  /\ last.call.worker = "w2"
  /\ last.ret.out = "empty"
  /\ 1 \in DOMAIN StoredTasks
  /\ UnexpiredAt(StoredTasks[1], last.call.tNow)
  /\ Val(StoredTasks[1].lease).owner = "w1"

\* ---------------------------------------------------------------------- C4
\* C4: for each task and token, at most one completeActivity call carrying
\* the token is accepted (written); a call that returns otherwise returned
\* already = true (or found no workflow).
C4_OneCompletionPerToken ==
  /\ \A i, j \in 1..Len(accepted) :
       (i < j /\ IsSome(accepted[i][2])) => accepted[i] # accepted[j]
  /\ (last.call.op = "complete" /\ last.ret.out # "ok")
       => last.ret.out \in {"already", "not found"}

\* A failed completion under token 1 was accepted and the task retried; a
\* second completion carrying token 1 returned already = true.
C4_Witness ==
  /\ accepted = << <<1, Some(1)>> >>
  /\ last.call.op = "complete"
  /\ last.call.token = Some(1)
  /\ last.ret.out = "already"
  /\ StoredTasks[1].status = "pending"
  /\ StoredTasks[1].tries = 1

\* ---------------------------------------------------------------------- C5
\* C5: for every two successive persisted versions of the blob, the earlier
\* history is a prefix of the later one, whatever calls interleave.
C5_HistoryAppendOnly ==
  [][(db # None /\ db' # None)
       => IsPrefix(Val(db).state.history, Val(db').state.history)]_vars

\* ---------------------------------------------------------------------- C6
\* Running the two calls a and b one after the other from the record rec
\* gives their results and leaves the record final.
SerialOrder(a, b, rec, final) ==
  LET r1 == RunAlone(a.call, rec)
      r2 == RunAlone(b.call, r1.rec)
  IN r1.ret = a.ret /\ r2.ret = b.ret /\ r2.rec = final

\* C6: once two calls that overlapped have both returned, the stored record
\* and the two results are those of running them one after the other, in
\* one order or the other, from the record stored when the first began.
C6_TwoCallsSerializable ==
  (Quiet /\ since = 2 /\ Len(win) = 2)
    => \/ SerialOrder(win[1], win[2], base, db)
       \/ SerialOrder(win[2], win[1], base, db)

\* ---------------------------------------------------------------------- C7
\* The effect ids of the scheduling events of a type, in history order.
ScheduledIds(history, type) ==
  LET sel == SelectSeq(history, LAMBDA e : e.type = type)
  IN [i \in 1..Len(sel) |-> sel[i].eid]

NoDuplicate(seq) ==
  \A i, j \in 1..Len(seq) : i < j => seq[i] # seq[j]

SchedulesOnce(history) ==
  /\ NoDuplicate(ScheduledIds(history, "ACTIVITY_SCHEDULED"))
  /\ NoDuplicate(ScheduledIds(history, "TIMER_SCHEDULED"))

SameSchedule(h1, h2) ==
  /\ ScheduledIds(h1, "ACTIVITY_SCHEDULED") = ScheduledIds(h2, "ACTIVITY_SCHEDULED")
  /\ ScheduledIds(h1, "TIMER_SCHEDULED") = ScheduledIds(h2, "TIMER_SCHEDULED")

\* No event for the decider to see: nothing set need_decide since its last
\* run, and no timer is due at tNow.
NothingNew(s, tNow) ==
  /\ ~s.need_decide
  /\ \A k \in DOMAIN s.tasks :
       ~(s.tasks[k].type = "sleep" /\ s.tasks[k].status = "pending"
         /\ s.tasks[k].run_after <= tNow)

\* C7: no history, stored or about to be written, holds two
\* ACTIVITY_SCHEDULED events or two TIMER_SCHEDULED events of one effect id;
\* a tick on a stored state with nothing new schedules nothing, and neither
\* would the decider run again on the unchanged history.
C7_NoDuplicateScheduling ==
  /\ SchedulesOnce(StoredHistory)
  /\ \A p \in Procs : loc[p] # None => SchedulesOnce(Val(loc[p]).s.history)
  /\ db # None =>
       LET s == Val(db).state
       IN \A t \in Times :
            NothingNew(s, t) =>
              /\ SameSchedule(TickBody(s, t).history, s.history)
              /\ SameSchedule(
                   runDecider([s EXCEPT !.need_decide = TRUE], t).history,
                   s.history)

\* The decider ran again (a tick after a signal) on a history in which the
\* activity of effect 1 was scheduled and not completed.
C7_Witness ==
  /\ last.call.op = "tick"
  /\ last.ret.out = "ok"
  /\ db # None
  /\ ~Val(db).state.need_decide
  /\ \E i, j \in 1..Len(StoredHistory) :
       /\ i < j
       /\ StoredHistory[i].type = "ACTIVITY_SCHEDULED"
       /\ StoredHistory[j].type = "SIGNAL"
  /\ \A k \in 1..Len(StoredHistory) :
       StoredHistory[k].type # "ACTIVITY_COMPLETED"

\* ---------------------------------------------------------------------- C8
\* C8: the write of a tick that scheduled an activity stores, for every
\* ACTIVITY_SCHEDULED event it appended, a pending exec task under the
\* event's task id with run_after = t_now, tries 0, fence 0 and max_tries 3
\* (or execDefaults.maxTries), which a reservation at t_now then leases alone
\* with token 1.
C8_ExecTaskStored ==
  [][\A p \in Procs :
       (pc[p] = "put" /\ call[p].op = "tick" /\ pc'[p] = "idle")
         => \A i \in (Len(StoredHistory) + 1)..Len(StoredHistory') :
              StoredHistory'[i].type = "ACTIVITY_SCHEDULED"
                => LET id == StoredHistory'[i].task_id
                       s == Val(db').state
                       mt == s.ctx.params.maxTries
                   IN /\ id \in DOMAIN s.tasks
                      /\ s.tasks[id] =
                           ExecTask(id, call[p].tNow, StoredHistory'[i].eid,
                                    IF IsSome(mt) THEN Val(mt)
                                    ELSE DefaultMaxTries)
                      /\ LET r == ReserveBody(s, "w1", 1, 2, call[p].tNow)
                         IN /\ Len(r.leased) = 1
                            /\ r.leased[1].id = id
                            /\ Val(r.leased[1].lease).token = 1]_vars

\* ---------------------------------------------------------------------- C9
\* C9: a call throws conflict only as a create on an id that exists already
\* (thrown by its first put, in the step the call begins); no call that went
\* past its first store step throws conflict.
C9_NoConflictSurfaced ==
  [][(ReturnStep /\ last'.ret.out = "conflict")
       => (last'.call.op = "create" /\ ncalls' = ncalls + 1 /\ db # None)]_vars

\* --------------------------------------------------------------------- C10
\* C10: every stored version of the blob has WF_CREATED as the first event
\* of its history.
C10_CreatedFirst ==
  db # None =>
    /\ Len(StoredHistory) >= 1
    /\ StoredHistory[1].type = "WF_CREATED"

\* --------------------------------------------------------------------- C11
\* C11: on every stored record, a completeActivity call that is accepted,
\* followed by the same call (same task, token and outcome, at any time),
\* leaves the record of the first: the second returns already = true and
\* writes nothing, for a success and for a failure alike.
C11_CompleteTwiceAsOnce ==
  db # None =>
    \A c \in CallsOf("complete") :
      LET r1 == RunAlone(c, db)
      IN r1.ret.out = "ok" =>
           \A t2 \in Times :
             LET r2 == RunAlone([c EXCEPT !.tNow = t2], r1.rec)
             IN r2.rec = r1.rec /\ r2.ret.out = "already"

\* The activity was reserved and completed with success under token 1, and
\* the same completion called again returned already = true.
C11_Witness ==
  /\ DOMAIN StoredTasks = {1}
  /\ StoredTasks[1].status = "completed"
  /\ accepted = << <<1, Some(1)>> >>
  /\ last.call.op = "complete"
  /\ last.call.success
  /\ last.call.token = Some(1)
  /\ last.ret.out = "already"

\* --------------------------------------------------------------------- C12
Terminal(s) == s.status \in {"completed", "failed"}

\* The history without the TIMER_FIRED events (the one event a tick appends
\* without running the decider).
WithoutTimerFired(history) ==
  SelectSeq(history, LAMBDA e : e.type # "TIMER_FIRED")

WakeTimes(tasks) ==
  {tasks[k].run_after : k \in {j \in DOMAIN tasks : tasks[j].status = "pending"}}
  \cup {Val(tasks[k].lease).expires_at :
          k \in {j \in DOMAIN tasks : tasks[j].status = "leased"}}

IsEarliestWake(nw, tasks) ==
  IF WakeTimes(tasks) = {} THEN nw = None
  ELSE /\ nw # None
       /\ Val(nw) \in WakeTimes(tasks)
       /\ \A d \in WakeTimes(tasks) : Val(nw) <= d

\* C13: the state a tick puts, and the state stored when the tick returned,
\* carry as next_wake the least run_after of the pending tasks and expiry
\* of the leased tasks (null when there is none), and the tick returns it.
C13_NextWakeIsMinimum ==
  /\ \A p \in Procs :
       (pc[p] = "put" /\ call[p].op = "tick") =>
         /\ IsEarliestWake(Val(loc[p]).s.next_wake, Val(loc[p]).s.tasks)
         /\ Val(loc[p]).ret.next_wake = Val(loc[p]).s.next_wake
  /\ (last.call.op = "tick" /\ last.ret.out = "ok" /\ db # None
      /\ Val(db).rev = last.ret.rev) =>
         /\ IsEarliestWake(Val(db).state.next_wake, StoredTasks)
         /\ last.ret.next_wake = Val(db).state.next_wake

\* A tick at the latest time returned as next_wake the expiry of the lease
\* that a worker holds on task 1 since that time.
C13_Witness ==
  /\ last.call.op = "tick"
  /\ last.ret.out = "ok"
  /\ db # None
  /\ Val(db).rev = last.ret.rev
  /\ 1 \in DOMAIN StoredTasks
  /\ StoredTasks[1].status = "leased"
  /\ Val(StoredTasks[1].lease).expires_at = MaxTime + 2
  /\ last.ret.next_wake = Some(MaxTime + 2)

\* --------------------------------------------------------------------- C14
\* One more failing attempt on exec task id of state s: the task is reserved
\* (when pending, at its run_after) and its failure reported at that time
\* under the token of its lease.
FailOnce(s, id) ==
  LET t == s.tasks[id].run_after
      s1 == IF s.tasks[id].status = "pending"
            THEN ReserveBody(s, "w1", 1, 2, t).s ELSE s
  IN CompleteBody(s1, id, FALSE, None, Some(Val(s1.tasks[id].lease).token),
                  t).s

RECURSIVE FailTimes(_, _, _)
FailTimes(s, id, n) ==
  IF n = 0 THEN s ELSE FailTimes(FailOnce(s, id), id, n - 1)

LastEvent(s) == s.history[Len(s.history)]

\* The events of a type logged for a task.
EventsOf(history, type, id) ==
  SelectSeq(history, LAMBDA e : e.type = type /\ e.task_id = id)

\* C14: every stored exec task has tries <= max_tries, and tries < max_tries
\* while it is pending or leased; it is failed (and the workflow with it)
\* exactly after max_tries failures, each but the last logged as
\* ACTIVITY_RETRY.  From a pending or leased task with k = max_tries - tries
\* attempts left, each of the next k - 1 failing attempts adds 1 to tries,
\* returns the task to pending without lease and appends ACTIVITY_RETRY; the
\* k-th sets it failed with tries = max_tries, appends ACTIVITY_FAILED and
\* sets the workflow failed.
C14_FailsAfterMaxTries ==
  \A id \in DOMAIN StoredTasks :
    LET s == Val(db).state
        t == s.tasks[id]
        m == t.max_tries
    IN t.type = "exec" =>
         /\ t.tries <= m
         /\ t.status \in {"pending", "leased"} => t.tries < m
         /\ t.status = "failed" <=> t.tries = m
         /\ t.status = "failed" => s.status = "failed"
         /\ Len(EventsOf(s.history, "ACTIVITY_RETRY", id))
              + Len(EventsOf(s.history, "ACTIVITY_FAILED", id)) = t.tries
         /\ t.status \in {"pending", "leased"} =>
              \A j \in 1..(m - t.tries) :
                LET sj == FailTimes(s, id, j)
                    tj == sj.tasks[id]
                IN /\ tj.tries = t.tries + j
                   /\ IF j < m - t.tries
                      THEN /\ tj.status = "pending"
                           /\ tj.lease = None
                           /\ LastEvent(sj).type = "ACTIVITY_RETRY"
                           /\ LastEvent(sj).task_id = id
                           /\ sj.status = s.status
                      ELSE /\ tj.status = "failed"
                           /\ LastEvent(sj).type = "ACTIVITY_FAILED"
                           /\ LastEvent(sj).task_id = id
                           /\ sj.status = "failed"

\* A task with max_tries = 1 was reserved and its failure accepted: it is
\* failed after one try, and so is the workflow.
C14_Witness ==
  /\ 1 \in DOMAIN StoredTasks
  /\ StoredTasks[1].status = "failed"
  /\ StoredTasks[1].tries = 1
  /\ StoredTasks[1].max_tries = 1
  /\ Val(db).state.status = "failed"
  /\ LastEvent(Val(db).state).type = "ACTIVITY_FAILED"
  /\ last.call.op = "complete"
  /\ ~last.call.success
  /\ last.ret.out = "ok"

\* --------------------------------------------------------------------- C15
\* The retry_delays an exec task may carry.
RetryDelayChoices == {<<>>, <<1>>, <<3, 1>>}

\* The delay the claim gives for the failure that brings tries to n.
ClaimedBackoff(retry_delays, n) ==
  IF n <= Len(retry_delays) THEN retry_delays[n]
  ELSE IF 2 ^ n < MaxBackoff THEN 2 ^ n ELSE MaxBackoff

\* State s with exec task id carrying the given retry_delays, max_tries and
\* tries.
WithRetryPolicy(s, id, retry_delays, max_tries, tries) ==
  [s EXCEPT !.tasks[id].retry_delays = retry_delays,
            !.tasks[id].max_tries = max_tries,
            !.tasks[id].tries = tries]

\* One failing attempt on task id of s0, with a retry left, behaves as
\* claimed: ACTIVITY_RETRY records the claimed delay, run_after is the time
\* of the failure plus the delay, and no reservation before run_after
\* leases the task.
RetriesAsClaimed(s0, id) ==
  LET s1 == FailOnce(s0, id)
      ev == LastEvent(s1)
      b == ClaimedBackoff(s0.tasks[id].retry_delays, s0.tasks[id].tries + 1)
  IN /\ ev.type = "ACTIVITY_RETRY"
     /\ ev.task_id = id
     /\ ev.ts = s0.tasks[id].run_after
     /\ ev.after_seconds = b
     /\ s1.tasks[id].run_after = ev.ts + b
     /\ \A tt \in {ev.ts, ev.ts + b - 1} :
          tt < ev.ts + b =>
            LET r == ReserveBody(s1, "w2", 1, 2, tt)
            IN \A i \in 1..Len(r.leased) : r.leased[i].id # id

AllowedTaskStep(t, t2, c) ==
  \/ t2.status = t.status /\ t.status # "leased"
  \/ /\ t.status = "leased" /\ t2.status = "leased"
     /\ \/ Val(t2.lease).token = Val(t.lease).token
        \/ /\ c.op = "reserve"
           /\ Val(t.lease).expires_at <= c.tNow
           /\ Val(t2.lease).token = Val(t.lease).token + 1
  \/ /\ t.type = "exec" /\ t.status = "pending" /\ t2.status = "leased"
     /\ c.op = "reserve"
  \/ /\ t.type = "exec" /\ t.status = "leased" /\ t2.status = "pending"
     /\ c.op = "complete" /\ ~c.success
     /\ t2.tries < t2.max_tries
  \/ /\ t.type = "exec" /\ t.status = "leased" /\ t2.status = "completed"
     /\ c.op = "complete" /\ c.success
  \/ /\ t.type = "exec" /\ t.status = "leased" /\ t2.status = "failed"
     /\ c.op = "complete" /\ ~c.success
  \/ /\ t.type = "sleep" /\ t.status = "pending" /\ t2.status = "completed"
     /\ c.op = "tick"

SignalRank(gen, i) ==
  Cardinality({j \in 1..i : gen[j].kind = "signal" /\ gen[j].name = gen[i].name})

\* C17: in every decider invocation, the k-th signal effect of a name that
\* the generator yields is fed the payload of the k-th SIGNAL event of that
\* name in the history handed to the decider.
C17_SignalsInArrivalOrder ==
  dlast.ran =>
    LET gen == Deciders[dlast.seen.decider]
        fed == dlast.out.fed
    IN \A i \in 1..Len(fed) :
         fed[i].kind = "signal" =>
           LET list == signalsByName(dlast.seen.history, gen[i].name)
               k == SignalRank(gen, i)
           IN k <= Len(list) /\ fed[i].value = list[k].result

\* --------------------------------------------------------------------- C18
\* The task scheduled for child k of the race that is effect 1 of its
\* workflow.
RaceChildTask(history, child, k) ==
  IF child.kind = "exec" THEN execScheduledById(history, <<1, k - 1>>)
  ELSE IF child.kind = "sleep" THEN timerScheduledById(history, <<1, k - 1>>)
  ELSE None

\* The positions in history of the completion events of a task.
CompletionsOf(history, tid) ==
  {p \in 1..Len(history) :
     /\ history[p].type \in {"ACTIVITY_COMPLETED", "TIMER_FIRED"}
     /\ Some(history[p].task_id) = tid}

AllChildDone(history, child, k) ==
  IF child.kind = "signal" THEN signalsByName(history, child.name) # <<>>
  ELSE CompletionsOf(history, RaceChildTask(history, child, k)) # {}

\* The result of a done child k: the recorded result of an exec, the payload
\* of a signal, nothing for a sleep.
AllChildResult(history, child, k) ==
  IF child.kind = "signal" THEN signalsByName(history, child.name)[1].result
  ELSE IF child.kind = "exec"
  THEN LET at == CompletionsOf(history, RaceChildTask(history, child, k))
       IN history[CHOOSE p \in at : \A q \in at : p <= q].result
  ELSE None

C20_DeciderIsPure ==
  dlast.ran =>
    /\ dlast.out.ctx = dlast.seen.ctx
    /\ interpret(Deciders[dlast.seen.decider], dlast.out.ctx,
                 dlast.seen.history).cmds = dlast.out.cmds

\* --------------------------------------------------------------------- C21
StoredSignals == IF db = None THEN <<>> ELSE Val(db).state.signals

\* The SIGNAL events of a history, in order, as entries of the signals list.
SignalEvents(history) ==
  LET sel == SelectSeq(history, LAMBDA e : e.type = "SIGNAL")
  IN [k \in 1..Len(sel) |->
        [ts |-> sel[k].ts, name |-> sel[k].key, payload |-> sel[k].result]]

\* A signal call run alone on the stored record, whatever the workflow
\* status, appends its entry to signals and its SIGNAL event to history and
\* sets need_decide.
SignalAppends ==
  db # None =>
    \A c \in CallsOf("signal") :
      LET s == Val(db).state
          s2 == Val(RunAlone(c, db).rec).state
          entry == [ts |-> c.tNow, name |-> c.worker, payload |-> c.result]
      IN /\ s2.signals = Append(s.signals, entry)
         /\ s2.history = Append(s.history,
                                Event("SIGNAL", c.tNow, 0, <<>>, c.worker, 0,
                                      c.result))
         /\ s2.need_decide

\* C21: a signal call appends one entry to signals and one SIGNAL event with
\* the same ts, name and payload and sets need_decide, whatever the status;
\* in every persisted state the SIGNAL events of history equal the signals
\* list; and the signals of a persisted state are kept, in order, by every
\* later persisted state.
C21_SignalsRecorded ==
  /\ [](SignalAppends /\ SignalEvents(StoredHistory) = StoredSignals)
  /\ [][(db # None /\ db' # None) => IsPrefix(StoredSignals, StoredSignals')]_vars

\* --------------------------------------------------------------------- C22
\* Exec tasks a reservation may find under the id given: pending and due,
\* pending with run_after after every t_now, leased to w2 until MaxTime (run
\* out at t_now = MaxTime, not before), and completed.
MoreTaskChoices(id) ==
  { ExecTask(id, 0, <<>>, DefaultMaxTries),
    ExecTask(id, MaxTime + 1, <<>>, DefaultMaxTries),
    [ExecTask(id, 0, <<>>, DefaultMaxTries)
       EXCEPT !.status = "leased", !.fence = 1,
              !.lease = Some(Lease("w2", 1, MaxTime))],
    [ExecTask(id, 0, <<>>, DefaultMaxTries)
       EXCEPT !.status = "completed", !.fence = 1, !.result = Some("r")] }

\* State s with the exec tasks a and b stored under the next two task ids.
WithMoreTasks(s, a, b) ==
  [s EXCEPT !.seq = @ + 2,
            !.tasks = [k \in DOMAIN @ \cup {s.seq + 1, s.seq + 2} |->
                         IF k = s.seq + 1 THEN a
                         ELSE IF k = s.seq + 2 THEN b ELSE @[k]]]

\* The task may be leased at tNow.
Eligible(tsk, tNow) ==
  /\ tsk.type = "exec"
  /\ tsk.status \notin {"completed", "failed"}
  /\ tsk.run_after <= tNow
  /\ ~(tsk.status = "leased" /\ IsSome(tsk.lease)
       /\ Val(tsk.lease).expires_at > tNow)

\* reserveReadyActivities(workerId, maxN, leaseSecs, tNow) on s leases the
\* first min(maxN, k) of the k eligible tasks in ascending id order, each to
\* workerId until tNow + leaseSecs under its next token, returns them in that
\* order and leaves every other task as it was.
ReservesAsClaimed(s, workerId, maxN, leaseSecs, tNow) ==
  LET r == ReserveBody(s, workerId, maxN, leaseSecs, tNow)
      elig == SortedIds({id \in DOMAIN s.tasks : Eligible(s.tasks[id], tNow)})
      n == Min2(maxN, Len(elig))
      want == SubSeq(elig, 1, n)
      got == {want[k] : k \in 1..n}
  IN /\ [k \in 1..Len(r.leased) |-> r.leased[k].id] = want
     /\ DOMAIN r.s.tasks = DOMAIN s.tasks
     /\ \A k \in 1..n :
          /\ r.leased[k] = r.s.tasks[want[k]]
          /\ r.leased[k] =
               [s.tasks[want[k]]
                  EXCEPT !.status = "leased",
                         !.fence = @ + 1,
                         !.lease = Some(Lease(workerId,
                                              s.tasks[want[k]].fence + 1,
                                              tNow + leaseSecs))]
     /\ \A id \in DOMAIN s.tasks \ got : r.s.tasks[id] = s.tasks[id]

\* C22: on every stored state, alone or with two more exec tasks of any
\* condition beside its own, a reservation with max_n >= 1 leases exactly the
\* first min(max_n, k) eligible exec tasks in ascending id order; sleep
\* tasks, tasks not yet due, tasks under an unexpired lease and terminal
\* tasks are never leased.
C22_ReservesFirstEligible ==
  (db # None /\ Quiet) =>
    LET s == Val(db).state
    IN \A maxN \in 1..3, tNow \in Times, secs \in LeaseSecs :
         /\ ReservesAsClaimed(s, "w1", maxN, secs, tNow)
         /\ \A a \in MoreTaskChoices(s.seq + 1),
               b \in MoreTaskChoices(s.seq + 2) :
              ReservesAsClaimed(WithMoreTasks(s, a, b), "w1", maxN, secs, tNow)

\* A reservation with max_n = 1 returned task 1 leased to its caller until
\* t_now + lease_secs, and the stored task is the one returned.
C22_Witness ==
  /\ last.call.op = "reserve"
  /\ Len(last.ret.leased) = 1
  /\ last.ret.leased[1].id = 1
  /\ Val(last.ret.leased[1].lease).owner = last.call.worker
  /\ Val(last.ret.leased[1].lease).expires_at
       = last.call.tNow + last.call.secs
  /\ 1 \in DOMAIN StoredTasks
  /\ StoredTasks[1] = last.ret.leased[1]

ExtendRefused(s, c) ==
  \/ c.taskId \notin DOMAIN s.tasks
  \/ LET t == s.tasks[c.taskId]
     IN \/ t.type # "exec"
        \/ t.status # "leased"
        \/ ~IsSome(t.lease)
        \/ Val(t.lease).owner # c.worker
        \/ Val(t.lease).token # Val(c.token)
        \/ Val(t.lease).expires_at < c.tNow

\* C24: on every stored state, an extendLease call run alone throws and
\* leaves the record as it was when the task is missing or not leased, when
\* owner or token differ from the lease's, or when the lease ran out before
\* t_now; otherwise the record written differs from the one read only in
\* lease.expires_at, which is the previous expires_at plus extra_secs.
C24_ExtendLease ==
  db # None =>
    \A id \in {1, 2}, tNow \in 0..(MaxTime + 3), w \in Workers,
       tok \in Tokens \ {None}, x \in ExtraSecs :
      LET c == CallRec("extend", tNow, id, TRUE, None, tok, w, 0, x, NoParams)
          s == Val(db).state
          r == RunAlone(c, db)
      IN IF ExtendRefused(s, c)
         THEN r.ret.out \in {"not leased", "not your lease", "lease expired"}
              /\ r.rec = db
         ELSE /\ r.ret.out = "ok"
              /\ Val(r.rec).rev = Val(db).rev + 1
              /\ Val(r.rec).state =
                   [s EXCEPT !.tasks[id].lease =
                      Some(Lease(w, Val(tok),
                                 Val(s.tasks[id].lease).expires_at + x))]

\* An extendLease call at t_now = 0 returned and the stored lease, granted
\* until 2, now runs until 2 + extra_secs, with its owner and token and the
\* task's fence as they were.
C24_Witness ==
  /\ last.call.op = "extend"
  /\ last.ret.out = "ok"
  /\ last.call.tNow = 0
  /\ 1 \in DOMAIN StoredTasks
  /\ StoredTasks[1].status = "leased"
  /\ StoredTasks[1].lease
       = Some(Lease(last.call.worker, Val(last.call.token),
                    2 + last.call.secs))
  /\ StoredTasks[1].fence = Val(last.call.token)

\* --------------------------------------------------------------------- C25
\* C25: on every stored record, whatever calls were applied to the workflow
\* before, a create call fails with a conflict and leaves the record (state,
\* rev and CAS token) as it was.
C25_CreateOnExistingFails ==
  db # None =>
    \A c \in CallsOf("create") :
      LET r == RunAlone(c, db)
      IN r.ret.out = "conflict" /\ r.rec = db

\* A create call on the stored workflow, whose task 1 had been leased
\* before, threw a conflict, and the record is as the reservation left it.
C25_Witness ==
  /\ last.call.op = "create"
  /\ last.ret.out = "conflict"
  /\ db # None
  /\ Val(db).rev = 4
  /\ 1 \in DOMAIN StoredTasks
  /\ StoredTasks[1].status = "leased"

\* --------------------------------------------------------------------- C26
\* The CAS tokens a caller may hand to put: none, or any issued so far for
\* the key and the next one.
CasChoices ==
  {None} \cup {Some(k) : k \in 1..(IF db = None THEN 1 ELSE Val(db).rev + 1)}

\* The CAS token a caller in a retry loop read at its get.
HeldCas(p) == Val(loc[p]).cas

\* C26: on every stored record, put(key, state, cas) writes exactly when cas
\* is null and no record exists, or cas is the stored CAS token; a write sets
\* rev to the old rev plus 1 (1 for the first) and a CAS token that is none of
\* those issued before, after which the token it was made under is refused;
\* and a caller that holds a token read before a later write is refused.
C26_PutIsCompareAndSwap ==
  /\ \A cas \in CasChoices :
       LET writes == \/ db = None /\ cas = None
                     \/ db # None /\ cas = Some(Val(db).cas)
           s == NewState(0, NoParams)
           rec == NewRec(db, s)
           rev == IF db = None THEN 0 ELSE Val(db).rev
       IN /\ PutAccepts(db, cas) <=> writes
          /\ Val(rec).rev = rev + 1
          /\ Val(rec).state = s
          /\ Val(rec).cas \notin 1..rev
          /\ writes => ~PutAccepts(rec, cas)
  /\ db # None => Val(db).cas = Val(db).rev
  /\ \A p \in Procs :
       (pc[p] \in {"put", "create_put"} /\ db # None /\ HeldCas(p) # None
        /\ Val(HeldCas(p)) < Val(db).rev)
         => ~PutAccepts(db, HeldCas(p))

\* A caller read the CAS token, another call's put was accepted since, and
\* the caller is about to put under the token it read.
C26_Witness ==
  \E p \in Procs :
    /\ pc[p] = "put"
    /\ db # None
    /\ HeldCas(p) # None
    /\ Val(HeldCas(p)) + 1 = Val(db).rev
    /\ last.ret.rev = Val(db).rev

\* ---- C27
\* The events of a history that have the type given.
TypeCount(history, type) ==
  Cardinality({k \in 1..Len(history) : history[k].type = type})

\* Every activity completion of the run carried a result.
RunSucceeded ==
  \A k \in 1..Len(ds.history) :
    ds.history[k].type = "ACTIVITY_COMPLETED" => IsSome(ds.history[k].result)

\* What the completed hello run leaves apart from its CTX_SET events: three
\* activities scheduled and completed, three timers scheduled and fired,
\* WF_COMPLETED last, ctx.i = 3 and the result 3.
HelloRunEnd ==
  /\ TypeCount(ds.history, "ACTIVITY_SCHEDULED") = 3
  /\ TypeCount(ds.history, "ACTIVITY_COMPLETED") = 3
  /\ TypeCount(ds.history, "TIMER_SCHEDULED") = 3
  /\ TypeCount(ds.history, "TIMER_FIRED") = 3
  /\ ds.history[Len(ds.history)].type = "WF_COMPLETED"
  /\ ds.ctx.i = Some(3)
  /\ ds.ctx.result = Some(3)

C27_HelloRunButCtxSet ==
  (ds.decider = "hello" /\ ds.status = "completed" /\ RunSucceeded) =>
    HelloRunEnd

\* ---- C28
StoredSeq == IF db = None THEN 0 ELSE Val(db).state.seq

\* The ids of the tasks minted, in the order of their TIMER_SCHEDULED and
\* ACTIVITY_SCHEDULED events.
MintedIds(history) ==
  LET sched == SelectSeq(history,
                 LAMBDA e : e.type \in {"TIMER_SCHEDULED", "ACTIVITY_SCHEDULED"})
  IN [k \in 1..Len(sched) |-> sched[k].task_id]

\* C28: from one persisted version of a workflow to the next, seq never
\* decreases and grows by exactly the number of tasks minted; the ids minted
\* are all distinct and increase in the order of creation.
C28_SeqNeverDecreases ==
  /\ [](\A j, k \in 1..Len(MintedIds(StoredHistory)) :
          j < k => MintedIds(StoredHistory)[j] < MintedIds(StoredHistory)[k])
  /\ [][(db # None /\ db' # None) =>
          /\ StoredSeq' >= StoredSeq
          /\ StoredSeq' - StoredSeq
               = Len(MintedIds(StoredHistory')) - Len(MintedIds(StoredHistory))]_vars

\* ---- C29
\* One more attempt on activity id of state s that fails: a reservation by
\* the runner at the time the task is due, and the failure reported under
\* the token of the lease it got.
AttemptFails(s, id) ==
  LET t == IF id \in DOMAIN s.tasks THEN s.tasks[id].run_after
           ELSE s.updated_at
      s1 == ReserveBody(s, "local", 1, 2, t).s
      tok == IF id \in DOMAIN s1.tasks /\ IsSome(s1.tasks[id].lease)
             THEN Some(Val(s1.tasks[id].lease).token) ELSE None
  IN CompleteBody(s1, id, FALSE, None, tok, t).s

RECURSIVE AlwaysFails(_, _, _)
AlwaysFails(s, id, n) ==
  IF n = 0 THEN s ELSE AlwaysFails(AttemptFails(s, id), id, n - 1)

\* The after_seconds of the ACTIVITY_RETRY events of a task, in order.
RetrySeconds(s, id) ==
  LET ev == EventsOf(s.history, "ACTIVITY_RETRY", id)
  IN [k \in 1..Len(ev) |-> ev[k].after_seconds]

\* The decider has just emitted the exec command of the first effect of one
\* of the two workflows of exec options, and that activity is still open.
ExecOptsEmitted ==
  /\ ds.decider \in {"opts_defaults", "opts_override"}
  /\ dlast.ran
  /\ \E k \in 1..Len(dlast.out.cmds) : dlast.out.cmds[k].type = "exec"
  /\ 1 \in OpenActivities(ds.history)

ExecCmdEmitted ==
  LET k == CHOOSE j \in 1..Len(dlast.out.cmds) : dlast.out.cmds[j].type = "exec"
  IN dlast.out.cmds[k]

\* The retry delays the claim names for the workflow run.
ClaimedDelays == IF ds.decider = "opts_override" THEN <<2, 2>> ELSE <<3, 5>>

\* The exec command carries each option from the call when the call gives
\* it and from execDefaults otherwise.
CommandMerged ==
  LET opts == Deciders[ds.decider][1].opts
      defaults == ds.ctx.params
      claimed == [f \in DOMAIN defaults |->
                    IF opts[f] # None THEN opts[f] ELSE defaults[f]]
  IN /\ ExecCmdEmitted.max_tries = claimed.maxTries
     /\ ExecCmdEmitted.retry_delays = claimed.retryDelays
     /\ ExecCmdEmitted.idem_key = claimed.idemKey
     /\ ExecCmdEmitted.run_after = claimed.runAfter
     /\ ExecCmdEmitted.max_tries = Some(3)
     /\ ExecCmdEmitted.retry_delays = Some(ClaimedDelays)

\* C29: the exec command a defineWorkflow decider emits takes max_tries,
\* retry_delays, idem_key and run_after from the options of the call merged
\* over ctx.params.execDefaults, the call winning where it gives a value; so
\* the activity that always fails (maxTries 3) records ACTIVITY_RETRY with
\* after_seconds [2, 2] under per-call retryDelays [2, 2] over defaults
\* [7, 7], and [3, 5] under execDefaults [3, 5] alone.
C29_ExecOptsMerged ==
  ExecOptsEmitted =>
    /\ CommandMerged
    /\ RetrySeconds(AlwaysFails(ds, 1, 3), 1) = ClaimedDelays

\* The first half of C29 alone: the command emitted.
C29_CommandMerged == ExecOptsEmitted => CommandMerged

\* The second half of C29 on the state in which the task of the command has
\* been entered in s.tasks.
C29_RetriesOfStoredTask ==
  ExecOptsEmitted =>
    LET task == [ExecTask(1, ds.updated_at, <<1>>, Val(ExecCmdEmitted.max_tries))
                   EXCEPT !.retry_delays = Val(ExecCmdEmitted.retry_delays)]
        s == [ds EXCEPT !.tasks = <<task>>]
    IN /\ RetrySeconds(AlwaysFails(s, 1, 3), 1) = ClaimedDelays
       /\ AlwaysFails(s, 1, 3).status = "failed"

\* ---- C30
\* The events that call for a decision.
Triggers == {"TIMER_FIRED", "ACTIVITY_COMPLETED", "ACTIVITY_RETRY", "SIGNAL"}

\* The history holds an event that calls for a decision and that no decider
\* invocation was given: every invocation logs CTX_SET ($wf.cursor at its
\* first yield) after the events it was handed, so such an event is one with
\* no CTX_SET behind it.
Undecided(history) ==
  \E k \in 1..Len(history) :
    /\ history[k].type \in Triggers
    /\ \A j \in (k + 1)..Len(history) : history[j].type # "CTX_SET"

StoredRunning == db # None /\ Val(db).state.status = "running"

\* The step is the successful put of a tick by p.
TickWrites(p) ==
  /\ pc[p] = "put"
  /\ call[p].op = "tick"
  /\ pc'[p] # "put"
  /\ db' # db

\* C30: while the persisted workflow is running and its history holds a
\* TIMER_FIRED, ACTIVITY_COMPLETED, ACTIVITY_RETRY or SIGNAL event that no
\* decider invocation was given, need_decide is true in the persisted state;
\* and the next tick that writes, whatever calls overlap it, keeps that
\* history and has handed it to the decider.
C30_NeedDecideNotLost ==
  /\ []((StoredRunning /\ Undecided(StoredHistory)) => Val(db).state.need_decide)
  /\ [][\A p \in Procs :
          (TickWrites(p) /\ StoredRunning /\ Undecided(StoredHistory)) =>
             /\ IsPrefix(StoredHistory, StoredHistory')
             /\ ~Undecided(StoredHistory')]_vars

\* A completion or a signal is stored and waits for the decider while a tick
\* that read the state before it is about to put.
C30_Witness ==
  /\ StoredRunning
  /\ Undecided(StoredHistory)
  /\ Val(db).state.need_decide
  /\ \E p \in Procs :
       /\ pc[p] = "put"
       /\ call[p].op = "tick"
       /\ ~PutAccepts(db, Val(loc[p]).cas)

\* --------------------------------------------------------------------- C31
\* The decider of the workflow signal(A); exec(f); complete was handed a
\* history in which A was delivered and the activity completed with a
\* result.
SignalAndActivityDone ==
  /\ dlast.ran
  /\ dlast.seen.decider = "signal_exec"
  /\ signalsByName(dlast.seen.history, "A") # <<>>
  /\ \E k \in 1..Len(dlast.seen.history) :
       /\ dlast.seen.history[k].type = "ACTIVITY_COMPLETED"
       /\ IsSome(dlast.seen.history[k].result)

RaceResolved(d) ==
  /\ d.ran
  /\ d.seen.decider = "race_exec"
  /\ Len(d.out.fed) >= 1
  /\ d.out.fed[1].kind = "race"

\* C32: once the race of a workflow has resolved with a key in one decider
\* invocation, the next invocation of the decider of that workflow, on the
\* history as extended since, resolves it with the same key and value.
C32_RaceWinnerStable ==
  [][(RaceResolved(dlast) /\ dlast'.ran /\ dlast' # dlast) =>
       /\ RaceResolved(dlast')
       /\ dlast'.out.fed[1].key = dlast.out.fed[1].key
       /\ dlast'.out.fed[1].value = dlast.out.fed[1].value]_vars

\* --------------------------------------------------------------------- C33
\* The positions in history of the ACTIVITY_COMPLETED events of the task
\* scheduled for effect i of the workflow.
CompletedAt(history, i) ==
  {k \in 1..Len(history) :
     /\ history[k].type = "ACTIVITY_COMPLETED"
     /\ Some(history[k].task_id) = execScheduledById(history, <<i>>)}

\* Effect i of the workflow is an exec that the replay recorded in d came
\* to, and the history handed to it holds the completion of its task.
ReplayedCompletedExec(d, i) ==
  /\ d.ran
  /\ i \in 1..Len(Deciders[d.seen.decider])
  /\ Deciders[d.seen.decider][i].kind = "exec"
  /\ Len(d.out.fed) >= i - 1
  /\ CompletedAt(d.seen.history, i) # {}

\* The exec effect i was fed the result recorded for its task.
FedRecordedResult(d, i) ==
  /\ Len(d.out.fed) >= i
  /\ d.out.fed[i].kind = "exec"
  /\ \E k \in CompletedAt(d.seen.history, i) :
       d.out.fed[i].value = d.seen.history[k].result

C33_FedWhenResultPresent ==
  \A i \in 1..3 :
    (/\ ReplayedCompletedExec(dlast, i)
     /\ \A k \in CompletedAt(dlast.seen.history, i) :
          IsSome(dlast.seen.history[k].result))
      => FedRecordedResult(dlast, i)

\* --------------------------------------------------------------------- C34
\* The TIMER_FIRED events of task id in state s.
FiredOf(s, id) == EventsOf(s.history, "TIMER_FIRED", id)

\* The sleep tasks of state s that are pending.
PendingSleeps(s) ==
  {id \in DOMAIN s.tasks :
     s.tasks[id].type = "sleep" /\ s.tasks[id].status = "pending"}

\* State s1 is state s with the timers due at tNow fired and no other.
FiresDue(s, s1, tNow) ==
  \A id \in PendingSleeps(s) :
    IF s.tasks[id].run_after <= tNow
    THEN /\ s1.tasks[id].status = "completed"
         /\ Len(FiredOf(s1, id)) = Len(FiredOf(s, id)) + 1
         /\ FiredOf(s1, id)[Len(FiredOf(s1, id))].ts = tNow
    ELSE /\ s1.tasks[id] = s.tasks[id]
         /\ FiredOf(s1, id) = FiredOf(s, id)

\* C34: a tick at t_now completes every pending sleep task with run_after <=
\* t_now, appends exactly one TIMER_FIRED for it and sets need_decide, and
\* leaves the sleep tasks with run_after > t_now pending; in every persisted
\* state, whatever ticks overlapped, a sleep task has at most one
\* TIMER_FIRED event, none before its run_after, and has one exactly when it
\* is completed.
C34_TimersFireOnce ==
  /\ [](db # None =>
          LET s == Val(db).state
          IN /\ \A id \in DOMAIN s.tasks :
                  s.tasks[id].type = "sleep" =>
                    /\ Len(FiredOf(s, id)) <= 1
                    /\ (Len(FiredOf(s, id)) = 1) = (s.tasks[id].status = "completed")
                    /\ \A k \in 1..Len(FiredOf(s, id)) :
                         FiredOf(s, id)[k].ts >= s.tasks[id].run_after
             /\ \A t \in 0..(MaxTime + 1) :
                  LET s1 == fireTimers(s, SortedIds(DOMAIN s.tasks), t)
                  IN /\ FiresDue(s, s1, t)
                     /\ (\E id \in PendingSleeps(s) : s.tasks[id].run_after <= t)
                          => s1.need_decide
                     /\ (\A id \in PendingSleeps(s) : s.tasks[id].run_after > t)
                          => s1 = s)
  /\ [][\A p \in Procs :
          TickWrites(p) /\ db # None =>
            FiresDue(Val(db).state, Val(db').state, call[p].tNow)]_vars

\* The timer was fired by one tick while another tick that had fired it too
\* is about to put under a stale tag.
C34_Witness ==
  /\ db # None
  /\ \E id \in DOMAIN StoredTasks :
       /\ StoredTasks[id].type = "sleep"
       /\ StoredTasks[id].status = "completed"
       /\ Len(FiredOf(Val(db).state, id)) = 1
       /\ \E p \in Procs :
            /\ pc[p] = "put"
            /\ call[p].op = "tick"
            /\ ~PutAccepts(db, Val(loc[p]).cas)
            /\ Len(FiredOf(Val(loc[p]).s, id)) = 1

\* --------------------------------------------------------------------- C35
\* A sleep command with neither or both of seconds and until.
BadSleep(c) ==
  /\ c.type = "sleep"
  /\ \/ c.seconds = None /\ c.until = None
     \/ c.seconds # None /\ c.until # None

\* The decider of stored state s, invoked by a tick at t, returns such a
\* command.
ReturnsBadSleep(s, t) ==
  LET s1 == fireTimers(s, SortedIds(DOMAIN s.tasks), t)
      cmds == decide(s1.decider, s1.ctx, s1.history).cmds
  IN /\ s1.status = "running"
     /\ s1.need_decide
     /\ \E k \in 1..Len(cmds) : BadSleep(cmds[k])

ThrewBadSleep(ret) ==
  ret.out = "sleep requires exactly one of seconds or until"

\* C35: when the decider returns a sleep command with neither or both of
\* seconds and until, the tick throws without a put, and the step in which
\* it throws leaves the stored blob as it was: neither the timers the tick
\* fired nor the commands it applied before the sleep are persisted.
C35_BadSleepPersistsNothing ==
  /\ [](db # None =>
          \A t \in Times :
            ReturnsBadSleep(Val(db).state, t) =>
              LET a == Attempt(CallRec("tick", t, 0, TRUE, None, None, "", 0, 0,
                                       NoParams), db)
              IN ~a.put /\ ThrewBadSleep(a.ret))
  /\ [][(nret' = nret + 1 /\ last'.call.op = "tick" /\ ThrewBadSleep(last'.ret))
          => db' = db]_vars

\* A tick has just thrown on a sleep command; the timer due at its t_now is
\* still pending in the store, with no TIMER_FIRED, and the set command of
\* that tick left no second CTX_SET.
C35_Witness ==
  /\ last.call.op = "tick"
  /\ ThrewBadSleep(last.ret)
  /\ db # None
  /\ 1 \in DOMAIN StoredTasks
  /\ StoredTasks[1].type = "sleep"
  /\ StoredTasks[1].status = "pending"
  /\ StoredTasks[1].run_after <= last.call.tNow
  /\ TypeCount(StoredHistory, "TIMER_FIRED") = 0
  /\ TypeCount(StoredHistory, "CTX_SET") = 1

\* --------------------------------------------------------------------- C36
\* C36: with the store answering every get and put, every call in flight
\* returns in the end; and a call goes round its CAS loop again only when
\* the blob has been put by another call since this one read it, so each
\* conflict of a call is paid for by a put of another.
C36_CallsReturn ==
  /\ \A p \in Procs : (pc[p] # "idle") ~> (pc[p] = "idle")
  /\ [][\A p \in Procs :
          (pc[p] = "put" /\ pc'[p] = "get") =>
             /\ db # None
             /\ Val(loc[p]).cas # None
             /\ Val(db).cas > Val(Val(loc[p]).cas)]_vars

\* A call lost the compare-and-swap and is about to read the blob again,
\* while the call that won has returned.
C36_Witness ==
  /\ \E p \in Procs : pc[p] = "get"
  /\ nret >= 1
  /\ db # None

\* ------------------------------------------------------------------ C37
\* The stored workflow is completed or failed.
StoredTerminal(rec) ==
  rec # None /\ Val(rec).state.status \in {"completed", "failed"}

\* The exec tasks of a stored workflow that are leased.
LeasedExecs(rec) ==
  {k \in DOMAIN Val(rec).state.tasks :
     /\ Val(rec).state.tasks[k].type = "exec"
     /\ Val(rec).state.tasks[k].status = "leased"}

C37_FinalWithoutLeasedExec ==
  [][(StoredTerminal(db) /\ LeasedExecs(db) = {}) =>
       /\ db' # None
       /\ Val(db').state.status = Val(db).state.status]_vars

EventsMatch(store, history) ==
  \A k \in 1..Len(history) :
    k \in DOMAIN store /\ store[k] = history[k]

\* C39: with an EventStore configured, the event stored at sequence number k
\* equals the k-th event of the workflow's persisted history, also after a
\* CAS conflict made a call drop its in-memory changes and retry from load.
C39_EventStoreMatchesHistory ==
  (es # None /\ db # None) => EventsMatch(Val(es), Val(db).state.history)

\* ------------------------------------------------------------------ C40
\* Every leased task of the state has a lease, under the token that is the
\* task's fence, and was leased at least once.
LeasesFenced(s) ==
  \A k \in DOMAIN s.tasks :
    s.tasks[k].status = "leased" =>
      /\ s.tasks[k].lease # None
      /\ s.tasks[k].fence >= 1
      /\ Val(s.tasks[k].lease).token = s.tasks[k].fence

\* Every lease of the state t was in the state s, under the same token and
\* owner.
LeasesKept(s, t) ==
  \A k \in DOMAIN t.tasks :
    t.tasks[k].lease # None =>
      /\ k \in DOMAIN s.tasks
      /\ s.tasks[k].lease # None
      /\ Val(t.tasks[k].lease).token = Val(s.tasks[k].lease).token
      /\ Val(t.tasks[k].lease).owner = Val(s.tasks[k].lease).owner

\* C40: in every stored state every task with status leased has a lease
\* whose token is the task's fence, which is at least 1; and what an
\* extendLease or completeActivity call stores holds no lease under another
\* token or owner than the state it replaces.
C40_LeaseTokenIsFence ==
  /\ [](db # None => LeasesFenced(Val(db).state))
  /\ [][\A p \in Procs :
          (/\ pc[p] = "put"
           /\ pc'[p] = "idle"
           /\ call[p].op \in {"complete", "extend"}) =>
             LeasesKept(Val(db).state, Val(db').state)]_vars

\* An extendLease call has stored its extension of a lease that was taken
\* over from an expired one (token 2).
C40_Witness ==
  /\ db # None
  /\ last.call.op = "extend"
  /\ last.ret.out = "ok"
  /\ \E k \in DOMAIN Val(db).state.tasks :
       /\ Val(db).state.tasks[k].status = "leased"
       /\ Val(db).state.tasks[k].fence = 2

====
